---- MODULE Spec2Model ----
(***************************************************************************)
(* State-machine model of the squad battle simulation core (sim crate):    *)
(* SimWorld (api.rs), its schedule of ECS systems, the spatial grid, the   *)
(* terrain grid and snapshot extraction.                                   *)
(*                                                                         *)
(* Numbers.  The code computes in f32.  The model computes in fixed point: *)
(*   - dimensionless reals, seconds and health are held in thousandths     *)
(*     (1.0 is 1000), see SCALE;                                           *)
(*   - lengths, positions and velocities are held in tenths of a world     *)
(*     unit (1.0 is 10), see POS.                                          *)
(* Products are divided back in the order the code multiplies.             *)
(***************************************************************************)
EXTENDS Integers, Sequences, FiniteSets, TLC

VARIABLES
    sim,        \* the SimWorld under test (api.rs SimWorld and its ECS world)
    twin,       \* a second SimWorld fed the same calls (determinism)
    history     \* observer of the calls made and the snapshots returned

vars == <<sim, twin, history>>

-----------------------------------------------------------------------------
(* Bounds of the model *)

MaxCalls == 2
MaxSquads == 2
MaxTick == 1
MaxCraters == 2
MaxDestructibles == 1
MaxSnapshots == 2
MaxOrders == 1
MaxBattleTick == 4
MaxGridEntities == 3
MaxGridCalls == 3
MaxMusterCalls == 2
MaxMusterSquads == 3
MaxMusterTick == 2
MaxSiegeCalls == 2
MaxSiegeTick == 2
MaxCommandCalls == 2
MaxCommandTick == 2
MaxConfigSquads == 1
MaxConfigTick == 2

\* the shelled terrain: craters applied and fixed updates run
MaxShells == 3
MaxShellTick == 1

\* the march: the fixed updates run, and the tick up to which orders are given
MaxMarchTick == 6
MaxMarchOrderTick == 0
MaxSkirmishTick == 4
MaxSkirmishOrderTick == 1
MaxSkirmishOrders == 1
MaxCrateredTick == 2
MaxCeasefireTick == 5

-----------------------------------------------------------------------------
(* Fixed-point helpers *)

SCALE == 1000
POS == 10

Abs(a) == IF a < 0 THEN -a ELSE a
Min(a, b) == IF a < b THEN a ELSE b
Max(a, b) == IF a > b THEN a ELSE b

\* a / b rounded toward zero, for either sign of a (b > 0)
Quot(a, b) == IF a < 0 THEN -((-a) \div b) ELSE a \div b

\* product of two values held in thousandths
Mul(a, b) == Quot(a * b, SCALE)

\* Body applied to the value of e.  The value is computed once and fully,
\* however often Body uses it.
Bind(e, Body(_)) == CHOOSE r \in {Body(v) : v \in {u \in {e} : u = u}} : TRUE

\* the bits of an integer square root, from bit b down
RECURSIVE SqrtBits(_, _, _)
SqrtBits(n, r, b) ==
    IF b < 0 THEN r
    ELSE Bind(IF r + 2^b <= 46340 /\ (r + 2^b) * (r + 2^b) <= n THEN r + 2^b ELSE r,
              LAMBDA v : SqrtBits(n, v, b - 1))

\* f32::sqrt on a squared length: the largest r with r*r <= n
Sqrt(n) == Bind(n, LAMBDA v : SqrtBits(v, 0, 15))

\* (dx*dx + dy*dy).sqrt()
Dist(dx, dy) == IF dy = 0 THEN Abs(dx) ELSE IF dx = 0 THEN Abs(dy) ELSE Sqrt(dx * dx + dy * dy)

\* ceil(a / b) for a >= 0, b > 0
CeilDiv(a, b) == (a + b - 1) \div b

RECURSIVE SumTo(_, _)
SumTo(s, n) == IF n = 0 THEN 0 ELSE s[n] + SumTo(s, n - 1)

\* the sum of a sequence of numbers
SeqSum(s) == Bind(s, LAMBDA v : SumTo(v, Len(v)))

\* the members of a finite set of integers as an ascending sequence
Ascending(S) ==
    Bind(S, LAMBDA T :
        [k \in 1..Cardinality(T) |->
            CHOOSE a \in T : Cardinality({b \in T : b < a}) = k - 1])

Range(s) == {s[i] : i \in DOMAIN s}

-----------------------------------------------------------------------------
(* components.rs: component data and their methods *)

F32Max == 2147483647

Factions == {"Blue", "Red"}

\* faction code used by the spatial grid: Blue = 0, Red = 1
FactionCode(f) == IF f = "Blue" THEN 0 ELSE 1

\* SquadStats::default()
DefaultSize == 12
DefaultSpeed == 50
DefaultFireRange == 600
DefaultAccuracy == 200

\* Health::new(100.0)
DefaultHealthMax == 100000

\* Health::is_alive
is_alive(q) == q.health > 0

\* Health::fraction
HealthFraction(q) ==
    IF q.health_max <= 0 THEN 0
    ELSE Max(0, Min(SCALE, (q.health * SCALE) \div q.health_max))

\* Health::damage
HealthDamageNoFloor(current, amount) == current - amount
HealthDamage(current, amount) == Max(current - amount, 0)

\* Morale::decrease / Morale::recover
MoraleDecreaseNoFloor(value, amount) == value - amount
MoraleDecrease(value, amount) == Max(value - amount, 0)
MoraleRecover(value, amount) == Min(value + amount, SCALE)

\* Morale::is_broken / is_shaken
BrokenThreshold == 200
MoraleIsBroken(value) == value < BrokenThreshold
MoraleIsShaken(value) == value < 500

\* Suppression::add / decay / is_pinned / is_suppressed
SuppressionAdd(value, amount) == value + amount
\* decay without the floor at 0
SuppressionDecay_unfloored(value, rate, dt) == value - Mul(rate, dt)
SuppressionDecay(value, rate, dt) == Max(value - Mul(rate, dt), 0)
IsPinned(value) == value >= 1000
IsSuppressed(value) == value >= 500

\* Order values
Hold == [kind |-> "Hold", x |-> 0, y |-> 0]
Retreat == [kind |-> "Retreat", x |-> 0, y |-> 0]
MoveTo(x, y) == [kind |-> "MoveTo", x |-> x, y |-> y]
AttackMove(x, y) == [kind |-> "AttackMove", x |-> x, y |-> y]

\* Option<(f32, f32)>
None == <<>>
Some(x, y) == <<x, y>>

\* SimLod::tick_interval
tick_interval(lod) ==
    CASE lod = "High" -> 1
      [] lod = "Medium" -> 2
      [] lod = "Low" -> 4

\* SimLod::should_update
should_update_offset(lod, tick) == tick % tick_interval(lod) = 1 % tick_interval(lod)
should_update(lod, tick) == tick % tick_interval(lod) = 0

\* the bounds an f32 saturates to when cast with `as i32`
I32Max == 2147483647
I32Min == -I32Max - 1

\* (a / size).floor() as i32: the floor of the quotient; a division by zero
\* gives an infinity, which the cast saturates, or NaN, which it turns to 0
FloorToI32(a, size) ==
    IF size > 0 THEN a \div size
    ELSE IF size < 0 THEN (-a) \div (-size)
    ELSE IF a > 0 THEN I32Max
    ELSE IF a < 0 THEN I32Min
    ELSE 0

\* (a / size) as i32, a cast without the floor
TruncToI32(a, size) == IF size # 0 THEN Quot(a, Abs(size)) ELSE 0

\* a sector id computed without the floor
SectorFromPosition_truncating(x, y, sector_size) ==
    <<TruncToI32(x, sector_size), TruncToI32(y, sector_size)>>

\* SectorId::from_position
SectorFromPosition(x, y, sector_size) ==
    <<FloorToI32(x, sector_size), FloorToI32(y, sector_size)>>

\* ThreatAwareness::default()
DefaultThreat ==
    [nearest_enemy |-> None, nearest_enemy_dist |-> 0, enemies_in_range |-> 0,
     time_since_fire |-> 0, threat_level |-> 0]

\* ThreatAwareness::clear
ThreatClear(t) ==
    [t EXCEPT !.nearest_enemy = None, !.nearest_enemy_dist = F32Max,
              !.enemies_in_range = 0]

\* ThreatAwareness::is_under_fire
is_under_fire(t) == t.time_since_fire < 2000

\* NearbyFriendlies::default()
DefaultNearby == [center_of_mass |-> None, average_velocity |-> <<0, 0>>]

\* TacticalPreferences::default()
Aggression == 500
CoverSeeking == 600
FlankingTendency == 400

\* FlockingWeights::default()
WCohesion == 300
WSeparation == 500
WAlignment == 200
WGoalSeeking == 1000
WThreatAvoidance == 800
NeighborRadius == 300
SeparationRadius == 80

\* ActivityFlags::default()
DefaultFlags ==
    [is_moving |-> FALSE, is_firing |-> FALSE, recently_damaged |-> FALSE,
     is_suppressed |-> FALSE, last_damage_tick |-> 0]

\* ActivityFlags::update_damage_status
update_damage_status(flags, current_tick, damage_memory_ticks) ==
    [flags EXCEPT !.recently_damaged =
        (Max(current_tick - flags.last_damage_tick, 0) < damage_memory_ticks)]

\* ActivityFlags::mark_damaged
mark_damaged(flags, tick) ==
    [flags EXCEPT !.last_damage_tick = tick, !.recently_damaged = TRUE]

\* DestructibleHealth::is_destroyed / is_damaged
is_destroyed(d) == d.health <= 0
is_damaged(d) == d.health <= d.damage_threshold /\ d.health > 0

\* SquadBundle + performance components as spawned by the API; ai says
\* whether the AIBundle is attached
NewSquad(entity, id, faction, x, y, ai, sector_size) ==
    [entity |-> entity, squad_id |-> id, faction |-> faction,
     x |-> x, y |-> y, vx |-> 0, vy |-> 0,
     health |-> DefaultHealthMax, health_max |-> DefaultHealthMax,
     morale |-> SCALE, suppression |-> 0, order |-> Hold,
     ai |-> ai, behavior_state |-> "Idle",
     threat |-> DefaultThreat, nearby |-> DefaultNearby,
     lod |-> "High", sector |-> SectorFromPosition(x, y, sector_size),
     flags |-> DefaultFlags]

\* TreeBundle::new / BuildingBundle::new
NewDestructible(entity, id, dtype, x, y) ==
    LET max == IF dtype = "Tree" THEN 30000 ELSE 150000
    IN [entity |-> entity, id |-> id, dtype |-> dtype, x |-> x, y |-> y,
        health |-> max, health_max |-> max, damage_threshold |-> max \div 2,
        state |-> "Intact", changed |-> TRUE]

-----------------------------------------------------------------------------
(* spatial.rs: SpatialGrid *)

GridCellSize == 200

\* SpatialGrid::new
NewGrid(cell_size) ==
    [cell_size |-> cell_size, cells |-> <<>>, entity_cells |-> <<>>]

\* SpatialGrid::world_to_cell
world_to_cell(g, x, y) == <<x \div g.cell_size, y \div g.cell_size>>

\* SpatialGrid::clear
GridClear(g) == [g EXCEPT !.cells = <<>>, !.entity_cells = <<>>]

\* Vec::retain(|e| e.entity != entity)
RetainOthers(entries, entity) == SelectSeq(entries, LAMBDA e : e.entity # entity)

\* a map with key k set to v
Put(map, k, v) == [j \in (DOMAIN map) \cup {k} |-> IF j = k THEN v ELSE map[j]]

\* a map without key k
Drop(map, k) == [j \in (DOMAIN map) \ {k} |-> map[j]]

\* SpatialGrid::insert on a grid value
InsertInto(g, entity, x, y, faction) ==
    LET cell == world_to_cell(g, x, y)
        moved == /\ entity \in DOMAIN g.entity_cells
                 /\ g.entity_cells[entity] # cell
                 /\ g.entity_cells[entity] \in DOMAIN g.cells
        entry == [entity |-> entity, x |-> x, y |-> y, faction |-> faction]
    IN Bind(IF moved
            THEN [g.cells EXCEPT ![g.entity_cells[entity]] = RetainOthers(@, entity)]
            ELSE g.cells,
            LAMBDA cells1 :
              [g EXCEPT !.cells = Put(cells1, cell,
                                      Append(IF cell \in DOMAIN cells1
                                             THEN cells1[cell] ELSE <<>>, entry)),
                        !.entity_cells = Put(g.entity_cells, entity, cell)])

\* SpatialGrid::insert
GridInsert(g, entity, x, y, faction) ==
    Bind(g, LAMBDA v : InsertInto(v, entity, x, y, faction))

\* SpatialGrid::remove on a grid value
RemoveFrom(g, entity) ==
    IF entity \notin DOMAIN g.entity_cells THEN g
    ELSE [g EXCEPT !.entity_cells = Drop(g.entity_cells, entity),
                   !.cells = IF g.entity_cells[entity] \in DOMAIN g.cells
                             THEN [g.cells EXCEPT ![g.entity_cells[entity]] =
                                       RetainOthers(@, entity)]
                             ELSE g.cells]

\* SpatialGrid::remove
GridRemove(g, entity) == Bind(g, LAMBDA v : RemoveFrom(v, entity))

\* squared distance of a grid entry to (x, y)
DistSq(e, x, y) == (e.x - x) * (e.x - x) + (e.y - y) * (e.y - y)

\* the cells a query visits, in the order of its two nested loops
\* (dx outer, dy inner, both ascending); cells holding nothing are skipped
CellsInLoopOrder(keys) ==
    Bind(keys, LAMBDA K :
        [n \in 1..Cardinality(K) |->
            CHOOSE a \in K :
                Cardinality({b \in K : b[1] < a[1] \/ (b[1] = a[1] /\ b[2] < a[2])})
                    = n - 1])

\* the entries of the visited cells that pass the distance filter, in visiting
\* order
RECURSIVE GatherCells(_, _, _, _, _, _)
GatherCells(g, keyseq, n, x, y, radius_sq) ==
    IF n > Len(keyseq) THEN <<>>
    ELSE SelectSeq(g.cells[keyseq[n]], LAMBDA e : DistSq(e, x, y) <= radius_sq)
         \o GatherCells(g, keyseq, n + 1, x, y, radius_sq)

\* results.sort_by(distance): a stable sort, so entries at equal distance keep
\* the order they were gathered in
SortByDist(results, x, y) ==
    Bind(results, LAMBDA R :
        LET Earlier(j, i) ==
                \/ DistSq(R[j], x, y) < DistSq(R[i], x, y)
                \/ DistSq(R[j], x, y) = DistSq(R[i], x, y) /\ j < i
        IN [n \in 1..Len(R) |->
               R[CHOOSE i \in 1..Len(R) :
                    Cardinality({j \in 1..Len(R) : Earlier(j, i)}) = n - 1]])

\* SpatialGrid::query_radius on a grid value
QueryIn(g, x, y, radius) ==
    LET cells_to_check == CeilDiv(radius, g.cell_size) + 1
        center == world_to_cell(g, x, y)
    IN Bind(CellsInLoopOrder({k \in DOMAIN g.cells :
                                 /\ Abs(k[1] - center[1]) <= cells_to_check
                                 /\ Abs(k[2] - center[2]) <= cells_to_check}),
            LAMBDA keyseq :
              SortByDist(GatherCells(g, keyseq, 1, x, y, radius * radius), x, y))

\* SpatialGrid::query_radius
query_radius(g, x, y, radius) ==
    Bind(<<g, x, y, radius>>, LAMBDA a : QueryIn(a[1], a[2], a[3], a[4]))

\* results.retain(|e| (e.faction == faction) == same)
RetainFaction(entries, faction, same) ==
    SelectSeq(entries, LAMBDA e : (e.faction = faction) = same)

\* SpatialGrid::query_enemies
query_enemies(g, x, y, radius, my_faction) ==
    RetainFaction(query_radius(g, x, y, radius), my_faction, FALSE)

\* SpatialGrid::query_friendlies
query_friendlies(g, x, y, radius, my_faction) ==
    RetainFaction(query_radius(g, x, y, radius), my_faction, TRUE)

\* SpatialGrid::total_count
total_count(g) == Cardinality(DOMAIN g.entity_cells)

\* every entry of every cell, as a set
GridEntries(g) == UNION {Range(g.cells[k]) : k \in DOMAIN g.cells}

\* the number of entries over all cells
GridEntryCount(g) ==
    Bind(CellsInLoopOrder(DOMAIN g.cells), LAMBDA keyseq :
        SeqSum([n \in 1..Len(keyseq) |-> Len(g.cells[keyseq[n]])]))

-----------------------------------------------------------------------------
(* terrain.rs: TerrainGrid *)

TerrainWidth == 200
TerrainHeight == 200
TerrainCellSize == 20

\* TerrainType::movement_multiplier
movement_multiplier(t) ==
    CASE t = "Open" -> 1000 [] t = "Rough" -> 700 [] t = "Mud" -> 400
      [] t = "Crater" -> 600 [] t = "Trench" -> 900 [] t = "Water" -> 200
      [] t = "Road" -> 1300 [] t = "Forest" -> 600 [] t = "Rubble" -> 500

\* TerrainType::cover_value
cover_value(t) ==
    CASE t = "Open" -> 0 [] t = "Rough" -> 200 [] t = "Mud" -> 0
      [] t = "Crater" -> 500 [] t = "Trench" -> 800 [] t = "Water" -> 0
      [] t = "Road" -> 0 [] t = "Forest" -> 400 [] t = "Rubble" -> 300

\* add_forest_patch / add_rough_patch: cell (x, y) lies in the patch
InPatch(x, y, cx, cy, radius) ==
    (x - cx) * (x - cx) + (y - cy) * (y - cy) <= radius * radius

\* TerrainGrid::new_with_features: the terrain type a cell starts with
InitialTerrainType(width, height, gx, gy) ==
    LET mid_y == height \div 2
        road == gy = mid_y \/ gy = mid_y - 1
        forest == \/ InPatch(gx, gy, width \div 4, height \div 4, 5)
                  \/ InPatch(gx, gy, (3 * width) \div 4, height \div 4, 4)
                  \/ InPatch(gx, gy, width \div 4, (3 * height) \div 4, 4)
                  \/ InPatch(gx, gy, (3 * width) \div 4, (3 * height) \div 4, 5)
        rough == \/ InPatch(gx, gy, width \div 3, height \div 3, 3)
                 \/ InPatch(gx, gy, (2 * width) \div 3, (2 * height) \div 3, 3)
    IN IF forest THEN "Forest"
       ELSE IF road THEN "Road"
       ELSE IF rough THEN "Rough"
       ELSE "Open"

\* TerrainGrid::new_with_features; cells holds the cells a crater has touched,
\* every other cell is as constructed
NewTerrain(width, height, cell_size) ==
    [width |-> width, height |-> height, cell_size |-> cell_size,
     origin_x |-> -((width * cell_size) \div 2),
     origin_y |-> -((height * cell_size) \div 2),
     cells |-> <<>>, craters |-> <<>>]

\* TerrainGrid::get_cell
get_cell(t, gx, gy) ==
    IF <<gx, gy>> \in DOMAIN t.cells THEN t.cells[<<gx, gy>>]
    ELSE [height |-> 0,
          terrain_type |-> InitialTerrainType(t.width, t.height, gx, gy),
          damage |-> 0]

\* TerrainGrid::world_to_grid
world_to_grid(t, world_x, world_y) ==
    <<Max(0, Min(t.width - 1, (world_x - t.origin_x) \div t.cell_size)),
      Max(0, Min(t.height - 1, (world_y - t.origin_y) \div t.cell_size))>>

\* TerrainGrid::get_terrain_at
get_terrain_at(t, world_x, world_y) ==
    LET g == world_to_grid(t, world_x, world_y) IN get_cell(t, g[1], g[2])

\* TerrainGrid::get_movement_multiplier / get_cover_at
get_movement_multiplier(t, x, y) == movement_multiplier(get_terrain_at(t, x, y).terrain_type)
get_cover_at(t, x, y) == cover_value(get_terrain_at(t, x, y).terrain_type)

\* an f32 that is not a number: the sum, product or difference of a NaN and
\* anything is NaN, and every comparison with it is false.  The value stands
\* outside every height and damage a crater can produce.
NaN == -2000000000

\* a <= b on f32
F32Le(a, b) == a # NaN /\ b # NaN /\ a <= b

\* distance of the centre of cell (gx, gy) to a world point
CellDist(t, gx, gy, world_x, world_y) ==
    Dist(t.origin_x + gx * t.cell_size + t.cell_size \div 2 - world_x,
         t.origin_y + gy * t.cell_size + t.cell_size \div 2 - world_y)

\* the deformation apply_crater makes to one cell at distance dist
CraterOnCell(cell, falloff, depth) ==
    IF falloff = NaN \/ cell.damage = NaN
    THEN [height |-> NaN, terrain_type |-> cell.terrain_type, damage |-> NaN]
    ELSE
    LET damage == cell.damage + Mul(depth, falloff)
    IN [height |-> cell.height - Mul(Mul(depth, falloff), falloff),
        terrain_type |->
            IF damage > 2000 THEN "Crater"
            ELSE IF damage > 1000 /\ cell.terrain_type = "Forest" THEN "Rubble"
            ELSE IF damage > 500 /\ cell.terrain_type = "Open" THEN "Rough"
            ELSE cell.terrain_type,
        damage |-> damage]

\* falloff = 1.0 - (dist / radius); a cell is deformed only when dist <= radius,
\* so with radius 0 the quotient is 0.0 / 0.0
CraterCell(cell, dist, radius, depth) ==
    Bind(<<cell, IF radius = 0 THEN NaN ELSE SCALE - (dist * SCALE) \div radius>>,
         LAMBDA a : CraterOnCell(a[1], a[2], depth))

\* TerrainGrid::apply_crater on values
CraterOn(t, world_x, world_y, radius, depth) ==
    LET c == world_to_grid(t, world_x, world_y)
        grid_radius == CeilDiv(radius, t.cell_size)
    IN Bind({k \in ((c[1] - grid_radius)..(c[1] + grid_radius))
                    \X ((c[2] - grid_radius)..(c[2] + grid_radius)) :
                /\ k[1] >= 0 /\ k[1] < t.width
                /\ k[2] >= 0 /\ k[2] < t.height
                /\ CellDist(t, k[1], k[2], world_x, world_y) <= radius},
            LAMBDA hit :
              [t EXCEPT
                 !.cells = [k \in (DOMAIN t.cells) \cup hit |->
                               IF k \in hit
                               THEN CraterCell(get_cell(t, k[1], k[2]),
                                        CellDist(t, k[1], k[2], world_x, world_y),
                                        radius, depth)
                               ELSE t.cells[k]],
                 !.craters = Append(t.craters,
                                [x |-> world_x, y |-> world_y, radius |-> radius,
                                 depth |-> depth, age |-> 0])])

\* TerrainGrid::apply_crater
apply_crater(t, world_x, world_y, radius, depth) ==
    Bind(<<t, world_x, world_y, radius, depth>>,
         LAMBDA a : CraterOn(a[1], a[2], a[3], a[4], a[5]))

\* the scatter of apply_barrage: <<cos(angle), sin(angle), dist / spread>> of
\* crater i of count, in thousandths, where
\* angle = (i / count) * 2 PI + i * 1.618 and dist = spread * (0.3 + 0.7 |sin(0.7 i)|)
BarrageScatter(i, count) ==
    CASE i = 0 -> <<1000, 0, 300>>
      [] i = 1 /\ count = 2 -> <<47, -999, 751>>
      [] i = 1 /\ count = 3 -> <<-841, -540, 751>>
      [] i = 2 /\ count = 3 -> <<416, 909, 990>>

\* TerrainGrid::apply_barrage, craters i..count-1
RECURSIVE apply_barrage_from(_, _, _, _, _, _, _, _)
apply_barrage_from(t, i, center_x, center_y, spread, count, crater_radius, crater_depth) ==
    IF i >= count THEN t
    ELSE Bind(apply_crater(t,
                  center_x + Mul(Mul(spread, BarrageScatter(i, count)[3]),
                                 BarrageScatter(i, count)[1]),
                  center_y + Mul(Mul(spread, BarrageScatter(i, count)[3]),
                                 BarrageScatter(i, count)[2]),
                  crater_radius, crater_depth),
              LAMBDA t1 :
                apply_barrage_from(t1, i + 1, center_x, center_y, spread, count,
                                   crater_radius, crater_depth))

\* TerrainGrid::apply_barrage
apply_barrage(t, center_x, center_y, spread, count, crater_radius, crater_depth) ==
    Bind(<<t, center_x, center_y, spread, count, crater_radius, crater_depth>>,
         LAMBDA a : apply_barrage_from(a[1], 0, a[2], a[3], a[4], a[5], a[6], a[7]))

\* TerrainGrid::update
terrain_update(t, dt) ==
    [t EXCEPT !.craters = [i \in DOMAIN t.craters |->
                              [t.craters[i] EXCEPT !.age = @ + dt]]]

-----------------------------------------------------------------------------
(* systems/performance.rs: SimConfig *)

\* SimConfig::default() with the given fixed timestep and LOD distances
Config(fixed_timestep, lod_high_distance, lod_medium_distance) ==
    [fixed_timestep |-> fixed_timestep, sector_size |-> 400,
     lod_high_distance |-> lod_high_distance,
     lod_medium_distance |-> lod_medium_distance,
     damage_memory_ticks |-> 60, lod_reference_point |-> <<0, 0>>]

-----------------------------------------------------------------------------
(* The ECS world: entity storage and query iteration order *)

\* Squads are stored in spawn order.  A query visits the archetype created
\* first (squads with or without the AI bundle, whichever was spawned first)
\* and then the other, each in spawn order.
QueryOrder(squads) ==
    IF squads = <<>> THEN <<>>
    ELSE LET first == {i \in DOMAIN squads : squads[i].ai = squads[1].ai}
         IN Ascending(first) \o Ascending((DOMAIN squads) \ first)

\* the index of the squad stored for an entity (0 when it is no squad)
SquadOf(squads, entity) ==
    IF \E i \in DOMAIN squads : squads[i].entity = entity
    THEN CHOOSE i \in DOMAIN squads : squads[i].entity = entity
    ELSE 0

\* the first squad, in query order, carrying the given SquadId (0 when none)
FirstWithId(squads, order, squad_id) ==
    Bind(<<squads, order>>,
         LAMBDA a :
           IF \E k \in DOMAIN a[2] : a[1][a[2][k]].squad_id = squad_id
           THEN a[2][CHOOSE k \in DOMAIN a[2] :
                        /\ a[1][a[2][k]].squad_id = squad_id
                        /\ \A j \in 1..(k - 1) : a[1][a[2][j]].squad_id # squad_id]
           ELSE 0)

-----------------------------------------------------------------------------
(* spatial.rs: spatial_grid_update_system *)

\* the insert loop of spatial_grid_update_system from position n of the query
RECURSIVE InsertAlive(_, _, _, _)
InsertAlive(g, squads, order, n) ==
    IF n > Len(order) THEN g
    ELSE Bind(IF is_alive(squads[order[n]])
              THEN GridInsert(g, squads[order[n]].entity, squads[order[n]].x,
                              squads[order[n]].y, FactionCode(squads[order[n]].faction))
              ELSE g,
              LAMBDA g1 : InsertAlive(g1, squads, order, n + 1))

\* the same loop without the is_alive test
RECURSIVE InsertAll(_, _, _, _)
InsertAll(g, squads, order, n) ==
    IF n > Len(order) THEN g
    ELSE Bind(GridInsert(g, squads[order[n]].entity, squads[order[n]].x,
                         squads[order[n]].y, FactionCode(squads[order[n]].faction)),
              LAMBDA g1 : InsertAll(g1, squads, order, n + 1))

spatial_grid_update_keeping_dead(w) ==
    [w EXCEPT !.grid =
        Bind(<<GridClear(w.grid), QueryOrder(w.squads)>>,
             LAMBDA a : InsertAll(a[1], w.squads, a[2], 1))]

spatial_grid_update_system(w) ==
    [w EXCEPT !.grid =
        Bind(<<GridClear(w.grid), QueryOrder(w.squads)>>,
             LAMBDA a : InsertAlive(a[1], w.squads, a[2], 1))]

-----------------------------------------------------------------------------
(* systems/performance.rs *)

lod_assignment_system(w) ==
    LET high_sq == w.config.lod_high_distance * w.config.lod_high_distance
        med_sq == w.config.lod_medium_distance * w.config.lod_medium_distance
        NewLod(q) ==
            LET dx == q.x - w.config.lod_reference_point[1]
                dy == q.y - w.config.lod_reference_point[2]
                dist_sq == dx * dx + dy * dy
            IN IF dist_sq <= high_sq THEN "High"
               ELSE IF dist_sq <= med_sq THEN "Medium"
               ELSE "Low"
    IN [w EXCEPT !.squads = [i \in DOMAIN w.squads |->
                                [w.squads[i] EXCEPT !.lod = NewLod(w.squads[i])]]]

activity_flags_system(w) ==
    LET NewFlags(q) ==
            update_damage_status(
                [q.flags EXCEPT !.is_moving = Dist(q.vx, q.vy) > 1,
                                !.is_suppressed = IsSuppressed(q.suppression)],
                w.SimTick, w.config.damage_memory_ticks)
    IN [w EXCEPT !.squads = [i \in DOMAIN w.squads |->
                                [w.squads[i] EXCEPT !.flags = NewFlags(w.squads[i])]]]

sector_assignment_system(w) ==
    [w EXCEPT !.squads = [i \in DOMAIN w.squads |->
        [w.squads[i] EXCEPT !.sector =
            SectorFromPosition(w.squads[i].x, w.squads[i].y, w.config.sector_size)]]]

-----------------------------------------------------------------------------
(* systems/ai.rs *)

\* the enemy loop of threat_awareness_system over the sorted query result
\* one iteration of that loop: st = <<closest_dist, threat>>
ThreatSeen(e, dist, st) ==
    <<IF dist < st[1] THEN dist ELSE st[1],
      [st[2] EXCEPT
         !.nearest_enemy = IF dist < st[1] THEN Some(e.x, e.y) ELSE @,
         !.nearest_enemy_dist = IF dist < st[1] THEN dist ELSE @,
         !.enemies_in_range = IF dist <= (DefaultFireRange * 3) \div 2
                              THEN @ + 1 ELSE @]>>

RECURSIVE ThreatScan(_, _, _, _)
ThreatScan(enemies, q, n, st) ==
    IF n > Len(enemies) THEN st[2]
    ELSE Bind(IF enemies[n].entity = q.entity THEN st
              ELSE Bind(Dist(enemies[n].x - q.x, enemies[n].y - q.y),
                        LAMBDA dist : ThreatSeen(enemies[n], dist, st)),
              LAMBDA st1 : ThreatScan(enemies, q, n + 1, st1))

\* threat_level from the closest distance and the count in range
ThreatLevel(closest_dist, enemies_in_range) ==
    IF enemies_in_range = 0 THEN 0
    ELSE LET range_factor == IF closest_dist < DefaultFireRange \div 2 THEN 1000
                             ELSE IF closest_dist < DefaultFireRange THEN 700
                             ELSE 300
             count_factor == Min((enemies_in_range * SCALE) \div 3, SCALE)
         IN Min(Mul(range_factor, 600) + Mul(count_factor, 400), SCALE)

\* the body of threat_awareness_system for one AI squad
ThreatFor(w, q) ==
    IF ~should_update(q.lod, w.SimTick)
    THEN [q.threat EXCEPT !.time_since_fire = @ + w.DeltaTime * tick_interval(q.lod)]
    ELSE Bind(Bind(query_enemies(w.grid, q.x, q.y, DefaultFireRange * 2,
                                 FactionCode(q.faction)),
                   LAMBDA enemies :
                     ThreatScan(enemies, q, 1,
                        <<F32Max, [ThreatClear(q.threat) EXCEPT
                                      !.time_since_fire = @ + w.DeltaTime]>>)),
              LAMBDA scanned :
                [scanned EXCEPT !.threat_level =
                    ThreatLevel(scanned.nearest_enemy_dist, scanned.enemies_in_range)])

threat_awareness_system(w) ==
    [w EXCEPT !.squads = [i \in DOMAIN w.squads |->
        IF w.squads[i].ai
        THEN [w.squads[i] EXCEPT !.threat = ThreatFor(w, w.squads[i])]
        ELSE w.squads[i]]]

\* the body of nearby_friendlies_system for one AI squad
NearbyOf(w, others) ==
    LET count == Len(others)
        Vel(k) == LET j == SquadOf(w.squads, others[k].entity)
                  IN IF j = 0 THEN <<0, 0>> ELSE <<w.squads[j].vx, w.squads[j].vy>>
    IN IF count > 0
       THEN [center_of_mass |->
                Some(Quot(SeqSum([n \in 1..count |-> others[n].x]), count),
                     Quot(SeqSum([n \in 1..count |-> others[n].y]), count)),
             average_velocity |->
                <<Quot(SeqSum([n \in 1..count |-> Vel(n)[1]]), count),
                  Quot(SeqSum([n \in 1..count |-> Vel(n)[2]]), count)>>]
       ELSE DefaultNearby

NearbyFor(w, q) ==
    Bind(SelectSeq(query_friendlies(w.grid, q.x, q.y, NeighborRadius,
                                    FactionCode(q.faction)),
                   LAMBDA f : f.entity # q.entity),
         LAMBDA others : NearbyOf(w, others))

nearby_friendlies_system(w) ==
    [w EXCEPT !.squads = [i \in DOMAIN w.squads |->
        IF w.squads[i].ai
        THEN [w.squads[i] EXCEPT !.nearby = NearbyFor(w, w.squads[i])]
        ELSE w.squads[i]]]

\* the preferences every squad bundle is built with
DefaultPreferences ==
    [aggression |-> Aggression, cover_seeking |-> CoverSeeking,
     flanking_tendency |-> FlankingTendency]

\* the same rules with the Retreat order looked at before cover is taken
determine_behavior_state_obedient(order, threat, prefs, suppression, morale) ==
    IF MoraleIsBroken(morale) THEN "Retreating"
    ELSE IF order.kind = "Retreat" THEN "Retreating"
    ELSE IF IsPinned(suppression) THEN "TakingCover"
    ELSE IF threat.threat_level > 700 /\ prefs.aggression < 500 THEN "TakingCover"
    ELSE IF is_under_fire(threat) /\ prefs.cover_seeking > 500 /\ IsSuppressed(suppression)
         THEN "TakingCover"
    ELSE IF threat.enemies_in_range > 0
         THEN (IF prefs.flanking_tendency > 600 /\ threat.enemies_in_range <= 2
               THEN "Flanking" ELSE "Engaging")
    ELSE IF order.kind \in {"MoveTo", "AttackMove"} THEN "Advancing"
    ELSE "Idle"

determine_behavior_state(order, threat, prefs, suppression, morale) ==
    IF MoraleIsBroken(morale) THEN "Retreating"
    ELSE IF IsPinned(suppression) THEN "TakingCover"
    ELSE IF threat.threat_level > 700 /\ prefs.aggression < 500 THEN "TakingCover"
    ELSE IF is_under_fire(threat) /\ prefs.cover_seeking > 500 /\ IsSuppressed(suppression)
         THEN "TakingCover"
    ELSE IF order.kind = "Retreat" THEN "Retreating"
    ELSE IF threat.enemies_in_range > 0
         THEN (IF prefs.flanking_tendency > 600 /\ threat.enemies_in_range <= 2
               THEN "Flanking" ELSE "Engaging")
    ELSE IF order.kind \in {"MoveTo", "AttackMove"} THEN "Advancing"
    ELSE "Idle"

behavior_state_system(w) ==
    [w EXCEPT !.squads = [i \in DOMAIN w.squads |->
        IF w.squads[i].ai
        THEN [w.squads[i] EXCEPT !.behavior_state =
                determine_behavior_state(w.squads[i].order, w.squads[i].threat,
                                         DefaultPreferences,
                                         w.squads[i].suppression, w.squads[i].morale)]
        ELSE w.squads[i]]]

\* ai_order_system with the Engaging rewrite open to every squad
AiOrderFor_eager(q) ==
    IF q.behavior_state = "Engaging" /\ q.threat.nearest_enemy # None
    THEN AttackMove(q.threat.nearest_enemy[1], q.threat.nearest_enemy[2])
    ELSE IF q.behavior_state = "Retreating" /\ q.threat.nearest_enemy # None
    THEN Bind(<<q.x - q.threat.nearest_enemy[1], q.y - q.threat.nearest_enemy[2]>>,
              LAMBDA d :
                Bind(Max(Dist(d[1], d[2]), 1),
                     LAMBDA dist : MoveTo(q.x + Quot(d[1] * 400, dist),
                                          q.y + Quot(d[2] * 400, dist))))
    ELSE q.order

\* the body of ai_order_system for one AI squad
AiOrderFor(q) ==
    LET has == q.threat.nearest_enemy # None
        ex == IF has THEN q.threat.nearest_enemy[1] ELSE 0
        ey == IF has THEN q.threat.nearest_enemy[2] ELSE 0
    IN CASE q.behavior_state = "Retreating" /\ has ->
              LET dx == q.x - ex
                  dy == q.y - ey
                  dist == Max(Dist(dx, dy), 1)
              IN MoveTo(q.x + Quot(dx * 400, dist), q.y + Quot(dy * 400, dist))
         [] q.behavior_state = "Flanking" /\ has ->
              LET dx == ex - q.x
                  dy == ey - q.y
                  dist == Max(Dist(dx, dy), 1)
              IN AttackMove(q.x + Quot((-dy) * 250, dist) + Quot(dx * 100, dist),
                            q.y + Quot(dx * 250, dist) + Quot(dy * 100, dist))
         [] q.behavior_state = "Regrouping" /\ q.nearby.center_of_mass # None ->
              MoveTo(q.nearby.center_of_mass[1], q.nearby.center_of_mass[2])
         [] q.behavior_state = "Engaging" /\ Aggression > 600 /\ has ->
              AttackMove(ex, ey)
         [] OTHER -> q.order

ai_order_system(w) ==
    [w EXCEPT !.squads = [i \in DOMAIN w.squads |->
        IF w.squads[i].ai
        THEN [w.squads[i] EXCEPT !.order = AiOrderFor(w.squads[i])]
        ELSE w.squads[i]]]

\* the separation loop of flocking_system over the neighbours found, from
\* position n; acc = <<sep_x, sep_y, sep_count>>
SeparationStep(o, q, dist, acc) ==
    IF dist > 1 /\ dist < SeparationRadius
    THEN <<acc[1] + Quot((q.x - o.x) * (SCALE - (dist * SCALE) \div SeparationRadius), dist),
           acc[2] + Quot((q.y - o.y) * (SCALE - (dist * SCALE) \div SeparationRadius), dist),
           acc[3] + 1>>
    ELSE acc

RECURSIVE SeparationSum(_, _, _, _)
SeparationSum(others, q, n, acc) ==
    IF n > Len(others) THEN acc
    ELSE Bind(Bind(Dist(q.x - others[n].x, q.y - others[n].y),
                   LAMBDA dist : SeparationStep(others[n], q, dist, acc)),
              LAMBDA acc1 : SeparationSum(others, q, n + 1, acc1))

\* the goal position flocking_system steers to
FlockingGoal(q) ==
    CASE q.order.kind \in {"MoveTo", "AttackMove"} -> <<q.order.x, q.order.y>>
      [] q.order.kind = "Hold" -> <<q.x, q.y>>
      [] q.order.kind = "Retreat" ->
           IF q.threat.nearest_enemy # None
           THEN Bind(Max(Dist(q.x - q.threat.nearest_enemy[1],
                              q.y - q.threat.nearest_enemy[2]), 1),
                     LAMBDA away :
                       <<q.x + Quot((q.x - q.threat.nearest_enemy[1]) * 500, away),
                         q.y + Quot((q.y - q.threat.nearest_enemy[2]) * 500, away)>>)
           ELSE <<q.x, q.y>>

\* a vector scaled to the given length when its own length exceeds least
Scaled(dx, dy, dist, least, length) ==
    IF dist > least THEN <<Quot(dx * length, dist), Quot(dy * length, dist)>>
    ELSE <<0, 0>>

\* the five steering terms in the order the code adds them, and the distance
\* to the goal
Steering(w, q, goal) ==
    <<Bind(Dist(goal[1] - q.x, goal[2] - q.y),
           LAMBDA d : Scaled(goal[1] - q.x, goal[2] - q.y, d, 10, WGoalSeeking)),
      IF q.nearby.center_of_mass # None
      THEN Bind(Dist(q.nearby.center_of_mass[1] - q.x, q.nearby.center_of_mass[2] - q.y),
                LAMBDA d : Scaled(q.nearby.center_of_mass[1] - q.x,
                                  q.nearby.center_of_mass[2] - q.y, d, 10, WCohesion))
      ELSE <<0, 0>>,
      Bind(Dist(q.nearby.average_velocity[1], q.nearby.average_velocity[2]),
           LAMBDA d : Scaled(q.nearby.average_velocity[1], q.nearby.average_velocity[2],
                             d, 1, WAlignment)),
      Bind(Bind(query_radius(w.grid, q.x, q.y, SeparationRadius),
                LAMBDA others : SeparationSum(others, q, 1, <<0, 0, 0>>)),
           LAMBDA sep :
             IF sep[3] > 0
             THEN <<Mul(Quot(sep[1], sep[3]), WSeparation),
                    Mul(Quot(sep[2], sep[3]), WSeparation)>>
             ELSE <<0, 0>>),
      IF q.threat.nearest_enemy # None /\ q.threat.threat_level > 300
      THEN Bind(<<Max(Dist(q.x - q.threat.nearest_enemy[1],
                           q.y - q.threat.nearest_enemy[2]), 1),
                  Mul(q.threat.threat_level, WThreatAvoidance)>>,
                LAMBDA a :
                  <<Mul(Quot((q.x - q.threat.nearest_enemy[1]) * a[2], a[1]), 300),
                    Mul(Quot((q.y - q.threat.nearest_enemy[2]) * a[2], a[1]), 300)>>)
      ELSE <<0, 0>>,
      Dist(goal[1] - q.x, goal[2] - q.y)>>

\* the velocity chosen from the summed steering <<x, y, magnitude>>
Steered(q, steer, goal_dist) ==
    IF steer[3] > 100
    THEN <<Quot(steer[1] * DefaultSpeed, steer[3]), Quot(steer[2] * DefaultSpeed, steer[3])>>
    ELSE IF goal_dist < 10 THEN <<0, 0>>
    ELSE <<q.vx, q.vy>>

\* the body of flocking_system for one AI squad: its new velocity
FlockingFor(w, q) ==
    IF IsPinned(q.suppression) \/ MoraleIsBroken(q.morale) THEN <<0, 0>>
    ELSE Bind(Bind(FlockingGoal(q), LAMBDA goal : Steering(w, q, goal)),
              LAMBDA t :
                Bind(<<t[1][1] + t[2][1] + t[3][1] + t[4][1] + t[5][1],
                       t[1][2] + t[2][2] + t[3][2] + t[4][2] + t[5][2]>>,
                     LAMBDA sum :
                       Bind(<<sum[1], sum[2], Dist(sum[1], sum[2])>>,
                            LAMBDA steer : Steered(q, steer, t[6]))))

flocking_system(w) ==
    [w EXCEPT !.squads = [i \in DOMAIN w.squads |->
        IF w.squads[i].ai
        THEN Bind(FlockingFor(w, w.squads[i]),
                  LAMBDA v : [w.squads[i] EXCEPT !.vx = v[1], !.vy = v[2]])
        ELSE w.squads[i]]]

-----------------------------------------------------------------------------
(* systems/movement.rs *)

\* order_system that stops a squad only on the target itself
OrderVelocity_homing(q) ==
    IF IsPinned(q.suppression) \/ MoraleIsBroken(q.morale) THEN <<0, 0>>
    ELSE IF q.order.kind \in {"MoveTo", "AttackMove"}
    THEN Bind(<<Dist(q.order.x - q.x, q.order.y - q.y),
                IF q.order.kind = "AttackMove"
                THEN Mul(DefaultSpeed, 600) ELSE DefaultSpeed>>,
              LAMBDA a :
                IF a[1] < 1 THEN <<0, 0>>
                ELSE <<Quot((q.order.x - q.x) * a[2], a[1]),
                       Quot((q.order.y - q.y) * a[2], a[1])>>)
    ELSE <<0, 0>>

\* the body of order_system for one squad: its new velocity
\* order_system without the pinned-or-broken branch
OrderVelocity_unpinned(q) ==
    IF q.order.kind \in {"MoveTo", "AttackMove"}
    THEN Bind(<<Dist(q.order.x - q.x, q.order.y - q.y),
                IF q.order.kind = "AttackMove"
                THEN Mul(DefaultSpeed, 600) ELSE DefaultSpeed>>,
              LAMBDA a :
                IF a[1] < 10 THEN <<0, 0>>
                ELSE <<Quot((q.order.x - q.x) * a[2], a[1]),
                       Quot((q.order.y - q.y) * a[2], a[1])>>)
    ELSE <<0, 0>>

OrderVelocity(q) ==
    IF IsPinned(q.suppression) \/ MoraleIsBroken(q.morale) THEN <<0, 0>>
    ELSE IF q.order.kind \in {"MoveTo", "AttackMove"}
    THEN Bind(<<Dist(q.order.x - q.x, q.order.y - q.y),
                IF q.order.kind = "AttackMove"
                THEN Mul(DefaultSpeed, 600) ELSE DefaultSpeed>>,
              LAMBDA a :
                IF a[1] < 10 THEN <<0, 0>>
                ELSE <<Quot((q.order.x - q.x) * a[2], a[1]),
                       Quot((q.order.y - q.y) * a[2], a[1])>>)
    ELSE <<0, 0>>

\* order_system over the squads without the AI overlay only
order_system_sparing(w) ==
    [w EXCEPT !.squads = [i \in DOMAIN w.squads |->
        IF w.squads[i].ai THEN w.squads[i]
        ELSE Bind(OrderVelocity(w.squads[i]),
                  LAMBDA v : [w.squads[i] EXCEPT !.vx = v[1], !.vy = v[2]])]]

order_system(w) ==
    [w EXCEPT !.squads = [i \in DOMAIN w.squads |->
        Bind(OrderVelocity(w.squads[i]),
             LAMBDA v : [w.squads[i] EXCEPT !.vx = v[1], !.vy = v[2]])]]

\* the body of movement_system for one squad: its new position
MovedPosition(w, q) ==
    IF IsPinned(q.suppression) \/ MoraleIsBroken(q.morale) THEN <<q.x, q.y>>
    ELSE LET base == IF IsSuppressed(q.suppression) THEN 300
                     ELSE IF MoraleIsShaken(q.morale) THEN 600
                     ELSE 1000
             speed_mult == IF w.terrain_resource
                           THEN Mul(base, get_movement_multiplier(w.terrain, q.x, q.y))
                           ELSE base
         IN <<q.x + Quot(q.vx * w.DeltaTime * speed_mult, SCALE * SCALE),
              q.y + Quot(q.vy * w.DeltaTime * speed_mult, SCALE * SCALE)>>

movement_system(w) ==
    [w EXCEPT !.squads = [i \in DOMAIN w.squads |->
        Bind(MovedPosition(w, w.squads[i]),
             LAMBDA p : [w.squads[i] EXCEPT !.x = p[1], !.y = p[2]])]]

-----------------------------------------------------------------------------
(* f32 arithmetic, bit for bit.  A finite non-negative f32 is held as
   <<m, e>>, standing for m * 2^e, with 2^23 <= m < 2^24, and zero as
   <<0, 0>>.  Used where the rounding of a sum decides a comparison. *)

F32Zero == <<0, 0>>

\* the number of binary digits of n
RECURSIVE BitLen(_)
BitLen(n) == IF n = 0 THEN 0 ELSE 1 + BitLen(n \div 2)

\* n * 2^e rounded to 24 significant bits, ties to even
F32Round(n, e) ==
    IF n = 0 THEN F32Zero
    ELSE Bind(BitLen(n),
              LAMBDA bits :
                IF bits <= 24 THEN <<n * 2^(24 - bits), e - (24 - bits)>>
                ELSE Bind(<<n \div 2^(bits - 24), n % 2^(bits - 24), 2^(bits - 25)>>,
                          LAMBDA a :
                            Bind(IF a[2] > a[3] \/ (a[2] = a[3] /\ a[1] % 2 = 1)
                                 THEN a[1] + 1 ELSE a[1],
                                 LAMBDA q : IF q = 2^24 THEN <<2^23, e + (bits - 24) + 1>>
                                            ELSE <<q, e + (bits - 24)>>)))

\* the smaller operand's digits at the exponent of the larger less three, the
\* digits shifted out kept as a one in the last place
F32Aligned(m, gap) ==
    IF gap <= 3 THEN m * 2^(3 - gap)
    ELSE IF gap - 3 >= 24 THEN 1
    ELSE Bind(<<m \div 2^(gap - 3), m % 2^(gap - 3)>>,
              LAMBDA a : IF a[2] # 0 /\ a[1] % 2 = 0 THEN a[1] + 1 ELSE a[1])

F32Less(a, b) ==
    IF a[1] = 0 THEN b[1] # 0
    ELSE b[1] # 0 /\ (a[2] < b[2] \/ (a[2] = b[2] /\ a[1] < b[1]))

\* a + b
F32Add(a, b) ==
    IF a[1] = 0 THEN b
    ELSE IF b[1] = 0 THEN a
    ELSE IF a[2] >= b[2]
    THEN F32Round(a[1] * 8 + F32Aligned(b[1], a[2] - b[2]), a[2] - 3)
    ELSE F32Round(b[1] * 8 + F32Aligned(a[1], b[2] - a[2]), b[2] - 3)

\* a - b for b <= a
F32Sub(a, b) ==
    IF b[1] = 0 THEN a
    ELSE F32Round(a[1] * 8 - F32Aligned(b[1], a[2] - b[2]), a[2] - 3)

-----------------------------------------------------------------------------
(* systems/combat.rs *)

BASE_HIT_CHANCE == 150
SUPPRESSION_PER_HIT == 200
DAMAGE_PER_HIT == 8000
RANGE_FALLOFF_START == 500
MAX_COVER_REDUCTION == 700

\* the attacker filter reduced to the is_alive test
IsAttacker_alive(q, current_tick) == is_alive(q)

\* the filter of the attacker collection
IsAttacker(q, current_tick) ==
    /\ is_alive(q)
    /\ ~IsPinned(q.suppression)
    /\ ~MoraleIsBroken(q.morale)
    /\ should_update(q.lod, current_tick)

\* the target loop: the first enemy of the sorted list that is strictly nearer
\* than every enemy before it; None or <<entity, dist, cover>>
RECURSIVE BestTarget(_, _, _, _, _)
BestTarget(w, enemies, q, n, best) ==
    IF n > Len(enemies) THEN best
    ELSE Bind(Bind(Dist(enemies[n].x - q.x, enemies[n].y - q.y),
                   LAMBDA dist :
                     IF dist <= DefaultFireRange /\ (best = None \/ dist < best[2])
                     THEN <<enemies[n].entity, dist,
                            IF w.terrain_resource
                            THEN get_cover_at(w.terrain, enemies[n].x, enemies[n].y)
                            ELSE 0>>
                     ELSE best),
              LAMBDA best1 : BestTarget(w, enemies, q, n + 1, best1))

\* the target an attacker fires at
TargetOf(w, q) ==
    Bind(query_enemies(w.grid, q.x, q.y, DefaultFireRange, FactionCode(q.faction)),
         LAMBDA enemies : BestTarget(w, enemies, q, 1, None))

\* hits scored by an attacker at distance dist
Hits(w, q, dist) ==
    LET start == Mul(DefaultFireRange, RANGE_FALLOFF_START)
        range_factor ==
            IF dist > start
            THEN SCALE - ((dist - start) * SCALE)
                            \div Mul(DefaultFireRange, SCALE - RANGE_FALLOFF_START)
            ELSE SCALE
        suppression_penalty == SCALE - Min(Mul(q.suppression, 500), 800)
        morale_factor == 500 + Mul(q.morale, 500)
        effective_accuracy ==
            Mul(Mul(Mul(DefaultAccuracy, range_factor), suppression_penalty),
                morale_factor)
        shots == DefaultSize * w.DeltaTime * 2 * tick_interval(q.lod)
    IN Mul(Mul(shots, effective_accuracy), BASE_HIT_CHANCE)

\* the gather phase: per attacker, in query order,
\* [attacker, target, damage, suppression]
\* the intent of one attacker at its target t = <<entity, dist, cover>>
IntentOf(w, q, t) ==
    Bind(Hits(w, q, t[2]),
         LAMBDA hits :
           [attacker |-> q.entity, target |-> t[1],
            damage |-> Mul(Mul(hits, DAMAGE_PER_HIT),
                           SCALE - Mul(t[3], MAX_COVER_REDUCTION)),
            suppression |-> Mul(Mul(hits, SUPPRESSION_PER_HIT),
                                SCALE - Mul(t[3], 300))])

RECURSIVE GatherIntents(_, _, _)
GatherIntents(w, order, n) ==
    IF n > Len(order) THEN <<>>
    ELSE (IF IsAttacker(w.squads[order[n]], w.SimTick)
          THEN Bind(TargetOf(w, w.squads[order[n]]),
                    LAMBDA t : IF t = None THEN <<>>
                               ELSE <<IntentOf(w, w.squads[order[n]], t)>>)
          ELSE <<>>)
         \o GatherIntents(w, order, n + 1)

\* results.damage / results.suppression accumulated for one entity
IntentSum(intents, entity, field) ==
    SeqSum([k \in DOMAIN intents |->
               IF intents[k].target = entity THEN intents[k][field] ELSE 0])

\* the apply phase
ApplyIntents(w, intents) ==
    LET targets == {intents[k].target : k \in DOMAIN intents}
        fired == {intents[k].attacker : k \in DOMAIN intents}
        Apply(q) ==
            LET hit == q.entity \in targets
                h == IF hit
                     THEN HealthDamage(q.health, IntentSum(intents, q.entity, "damage"))
                     ELSE q.health
                f1 == IF hit THEN mark_damaged(q.flags, w.SimTick) ELSE q.flags
                f2 == IF q.entity \in fired THEN [f1 EXCEPT !.is_firing = TRUE] ELSE f1
                sup == IF hit
                       THEN SuppressionAdd(q.suppression,
                                           IntentSum(intents, q.entity, "suppression"))
                       ELSE q.suppression
            IN [q EXCEPT !.health = h, !.suppression = sup, !.flags = f2]
    IN [w EXCEPT !.squads = [i \in DOMAIN w.squads |-> Apply(w.squads[i])],
                 !.fired = [k \in DOMAIN intents |-> intents[k].attacker]]

\* the same attackers served one at a time, each result applied before the
\* next attacker is examined
RECURSIVE CombatInTurn(_, _, _)
CombatInTurn(w, order, n) ==
    IF n > Len(order) THEN w
    ELSE Bind(IF IsAttacker(w.squads[order[n]], w.SimTick)
              THEN Bind(TargetOf(w, w.squads[order[n]]),
                        LAMBDA t : IF t = None THEN w
                                   ELSE [ApplyIntents(w, <<IntentOf(w, w.squads[order[n]], t)>>)
                                            EXCEPT !.fired = w.fired \o @])
              ELSE w,
              LAMBDA w1 : CombatInTurn(w1, order, n + 1))

combat_system_in_turn(w) ==
    Bind(QueryOrder(w.squads),
         LAMBDA order : CombatInTurn([w EXCEPT !.fired = <<>>], order, 1))

combat_system(w) ==
    Bind(Bind(QueryOrder(w.squads), LAMBDA order : GatherIntents(w, order, 1)),
         LAMBDA intents : ApplyIntents(w, intents))

-----------------------------------------------------------------------------
(* systems/suppression.rs *)

SUPPRESSION_DECAY_RATE == 150

suppression_decay_system(w) ==
    [w EXCEPT !.squads = [i \in DOMAIN w.squads |->
        [w.squads[i] EXCEPT !.suppression =
            SuppressionDecay(@, SUPPRESSION_DECAY_RATE, w.DeltaTime)]]]

-----------------------------------------------------------------------------
(* systems/morale.rs *)

MORALE_RECOVERY_RATE == 20
MORALE_SUPPRESSION_PENALTY == 50
MORALE_PINNED_PENALTY == 100
MORALE_CASUALTY_RATE == 2
MORALE_COHESION_BONUS == 10

\* the number of squads of the same faction within 20 units, the squad
\* itself (distance 0) not counted
NearbyFriendlies(w, q) ==
    Cardinality({j \in DOMAIN w.squads :
        /\ w.squads[j].faction = q.faction
        /\ Bind(Dist(w.squads[j].x - q.x, w.squads[j].y - q.y),
                LAMBDA d : d > 1 /\ d < 200)})

\* the suppression and casualty penalties of morale_system
MoralePenalties(w, q, health_frac) ==
    Bind(IF IsPinned(q.suppression)
         THEN MoraleDecrease(q.morale, Mul(MORALE_PINNED_PENALTY, w.DeltaTime))
         ELSE IF IsSuppressed(q.suppression)
         THEN MoraleDecrease(q.morale, Mul(MORALE_SUPPRESSION_PENALTY, w.DeltaTime))
         ELSE q.morale,
         LAMBDA m1 :
           Bind(IF health_frac < 750
                THEN MoraleDecrease(m1,
                         Quot((SCALE - health_frac) * MORALE_CASUALTY_RATE * w.DeltaTime,
                              SCALE * SCALE))
                ELSE m1,
                LAMBDA m2 :
                  IF health_frac < 250 THEN MoraleDecrease(m2, Mul(50, w.DeltaTime))
                  ELSE m2))

\* the recovery of morale_system and its rally
MoraleRecovery(w, q, health_frac, m3) ==
    Bind(IF ~IsSuppressed(q.suppression) /\ ~MoraleIsBroken(m3)
         THEN MoraleRecover(m3,
                  Mul(MORALE_RECOVERY_RATE
                        + NearbyFriendlies(w, q) * MORALE_COHESION_BONUS,
                      w.DeltaTime))
         ELSE m3,
         LAMBDA m4 :
           IF MoraleIsBroken(m4) /\ ~IsSuppressed(q.suppression) /\ health_frac > 500
           THEN MoraleRecover(m4, Mul(Mul(MORALE_RECOVERY_RATE, 100), w.DeltaTime))
           ELSE m4)

\* the morale of one squad after morale_system
MoraleFor(w, q) ==
    Bind(HealthFraction(q),
         LAMBDA health_frac :
           Bind(MoralePenalties(w, q, health_frac),
                LAMBDA m3 : MoraleRecovery(w, q, health_frac, m3)))

morale_system(w) ==
    [w EXCEPT !.squads = [i \in DOMAIN w.squads |->
        [w.squads[i] EXCEPT !.morale = MoraleFor(w, w.squads[i])]]]

\* a rout that reaches the squads with the AI overlay only
rout_system_overlay(w) ==
    [w EXCEPT !.squads = [i \in DOMAIN w.squads |->
        IF MoraleIsBroken(w.squads[i].morale) /\ w.squads[i].ai
        THEN [w.squads[i] EXCEPT !.order = Retreat]
        ELSE w.squads[i]]]

rout_system(w) ==
    [w EXCEPT !.squads = [i \in DOMAIN w.squads |->
        IF MoraleIsBroken(w.squads[i].morale)
        THEN [w.squads[i] EXCEPT !.order = Retreat]
        ELSE w.squads[i]]]

-----------------------------------------------------------------------------
(* systems/destruction.rs *)

\* DestructibleHealth::damage through a mutable borrow, which marks the
\* component as changed
\* a write to the health that change detection does not see
DestructibleDamage_unseen(d, amount) ==
    [d EXCEPT !.health = Max(@ - amount, 0)]

DestructibleDamage(d, amount) ==
    [d EXCEPT !.health = Max(@ - amount, 0), !.changed = TRUE]

\* the damage one event does to one destructible
EventDamage(d, ev) ==
    Bind(<<Dist(d.x - ev.x, d.y - ev.y), Mul(ev.radius, 1500)>>,
         LAMBDA a :
           IF a[1] <= a[2]
           THEN Bind(SCALE - (a[1] * SCALE) \div a[2],
                     LAMBDA falloff :
                       DestructibleDamage(d, Mul(Mul(ev.depth * 20, falloff), falloff)))
           ELSE d)

RECURSIVE ApplyEvents(_, _, _)
ApplyEvents(d, events, n) ==
    IF n > Len(events) THEN d
    ELSE Bind(EventDamage(d, events[n]),
              LAMBDA d1 : ApplyEvents(d1, events, n + 1))

terrain_damage_to_destructibles_system(w) ==
    [w EXCEPT !.destructibles = [i \in DOMAIN w.destructibles |->
        ApplyEvents(w.destructibles[i], w.events, 1)]]

\* the state destruction_state_system derives from the health
StateOfHealth(d) ==
    IF is_destroyed(d) THEN "Destroyed"
    ELSE IF is_damaged(d) THEN "Damaged"
    ELSE "Intact"

\* destruction_state_system: visits the destructibles whose health component
\* was written since the system last ran (Changed<DestructibleHealth>)
destruction_state_system(w) ==
    [w EXCEPT !.destructibles = [i \in DOMAIN w.destructibles |->
        IF w.destructibles[i].changed
        THEN [w.destructibles[i] EXCEPT !.state = StateOfHealth(w.destructibles[i]),
                                        !.changed = FALSE]
        ELSE w.destructibles[i]]]

-----------------------------------------------------------------------------
(* api.rs: SimWorld *)

\* SimWorld::with_config.  pc, ran and step_dt hold the position of a step
\* call in progress: the systems of the running fixed update that have run,
\* and the dt of the call.  fired is results.fired of the last combat_system
\* run.  terrain_resource tells whether a TerrainResource was inserted into
\* the ECS world.
with_config(config) ==
    [squads |-> <<>>, destructibles |-> <<>>, events |-> <<>>, next_entity |-> 0,
     DeltaTime |-> config.fixed_timestep, grid |-> NewGrid(GridCellSize),
     SimTick |-> 0, config |-> config, terrain_resource |-> FALSE,
     tick |-> 0, time |-> 0,
     terrain |-> NewTerrain(TerrainWidth, TerrainHeight, TerrainCellSize),
     new_craters |-> <<>>, terrain_dirty |-> TRUE, time_accumulator |-> 0,
     pc |-> "idle", ran |-> {}, step_dt |-> 0, fired |-> <<>>]

\* world.spawn of a squad
SpawnSquad(w, id, faction, x, y, ai) ==
    [w EXCEPT !.squads = Append(@, NewSquad(w.next_entity, id, faction, x, y, ai,
                                            w.config.sector_size)),
              !.next_entity = @ + 1]

\* SimWorld::spawn_ai_squad
spawn_ai_squad(w, id, faction, x, y) == SpawnSquad(w, id, faction, x, y, TRUE)

\* (count as f32).sqrt().ceil() as usize
MassCols(count) == CHOOSE c \in 0..count : c * c >= count /\ \A b \in 0..(c - 1) : b * b < count

\* the loop of spawn_mass_squads from squad i (0-based) up to squad last - 1
RECURSIVE spawn_mass_from(_, _, _, _, _, _, _, _, _)
spawn_mass_from(w, faction, center_x, center_y, count, spread, start_id, i, last) ==
    IF i >= last THEN w
    ELSE LET cols == MassCols(count)
             spacing == Quot(spread, cols)
             row == i \div cols
             col == i % cols
             x == center_x + Quot((2 * col - cols) * spacing, 2)
             y == center_y + Quot((2 * row - (count \div cols)) * spacing, 2)
         IN Bind(spawn_ai_squad(w, start_id + i, faction, x, y),
                 LAMBDA w1 : spawn_mass_from(w1, faction, center_x, center_y, count,
                                             spread, start_id, i + 1, last))

\* a mass spawn whose loop stops one squad short
spawn_mass_squads_one_short(w, faction, center_x, center_y, count, spread, start_id) ==
    spawn_mass_from(w, faction, center_x, center_y, count, spread, start_id, 0, count - 1)

\* SimWorld::spawn_mass_squads: the world it leaves
spawn_mass_squads(w, faction, center_x, center_y, count, spread, start_id) ==
    spawn_mass_from(w, faction, center_x, center_y, count, spread, start_id, 0, count)

\* SimWorld::spawn_mass_squads: the value it returns
spawn_mass_squads_returns(count) == count

\* an order loop that falls back to the first squad when no id matches
SetOrder_defaulting(w, squad_id, order) ==
    Bind(FirstWithId(w.squads, QueryOrder(w.squads), squad_id),
         LAMBDA i : IF i = 0 /\ w.squads # <<>>
                    THEN [w EXCEPT !.squads[QueryOrder(w.squads)[1]].order = order]
                    ELSE IF i = 0 THEN w
                    ELSE [w EXCEPT !.squads[i].order = order])

\* the loop shared by order_move, order_attack_move, order_hold, order_retreat
SetOrder(w, squad_id, order) ==
    Bind(FirstWithId(w.squads, QueryOrder(w.squads), squad_id),
         LAMBDA i : IF i = 0 THEN w ELSE [w EXCEPT !.squads[i].order = order])

order_move(w, squad_id, target_x, target_y) ==
    SetOrder(w, squad_id, MoveTo(target_x, target_y))

order_attack_move(w, squad_id, target_x, target_y) ==
    SetOrder(w, squad_id, AttackMove(target_x, target_y))

order_hold(w, squad_id) == SetOrder(w, squad_id, Hold)

order_retreat(w, squad_id) == SetOrder(w, squad_id, Retreat)

\* SimWorld::spawn_crater
spawn_crater(w, x, y, radius, depth) ==
    [w EXCEPT !.terrain = apply_crater(@, x, y, radius, depth),
              !.new_craters = Append(@, [x |-> x, y |-> y, radius |-> radius,
                                         depth |-> depth, age |-> 0]),
              !.terrain_dirty = TRUE,
              !.events = Append(@, [entity |-> w.next_entity, x |-> x, y |-> y,
                                    radius |-> radius, depth |-> depth]),
              !.next_entity = @ + 1]

\* self.terrain.craters.iter().rev().take(count)
RevTake(craters, count) ==
    [k \in 1..Min(count, Len(craters)) |-> craters[Len(craters) + 1 - k]]

\* SimWorld::spawn_barrage
spawn_barrage(w, center_x, center_y, spread, count) ==
    Bind(apply_barrage(w.terrain, center_x, center_y, spread, count,
                       30 + Mul(spread, 100), 1500),
         LAMBDA t : [w EXCEPT !.terrain = t,
                              !.new_craters = @ \o RevTake(t.craters, count),
                              !.terrain_dirty = TRUE])

\* SimWorld::spawn_tree / spawn_building
SpawnDestructible(w, id, dtype, x, y) ==
    [w EXCEPT !.destructibles = Append(@, NewDestructible(w.next_entity, id, dtype, x, y)),
              !.next_entity = @ + 1]

spawn_tree(w, id, x, y) == SpawnDestructible(w, id, "Tree", x, y)

spawn_building(w, id, x, y) == SpawnDestructible(w, id, "Building", x, y)

\* SimWorld::damage_destructible
damage_destructible(w, id, damage) ==
    IF \E i \in DOMAIN w.destructibles : w.destructibles[i].id = id
    THEN LET i == CHOOSE i \in DOMAIN w.destructibles :
                     /\ w.destructibles[i].id = id
                     /\ \A j \in 1..(i - 1) : w.destructibles[j].id # id
         IN [w EXCEPT !.destructibles[i] = DestructibleDamage(@, damage)]
    ELSE w

-----------------------------------------------------------------------------
(* world.rs: Snapshot *)

\* the order string of a SquadSnapshot; coordinates are printed with one
\* decimal, the resolution positions are carried at
FormatOrder(order) ==
    IF order.kind \in {"MoveTo", "AttackMove"}
    THEN <<order.kind, (order.x * 10) \div POS, (order.y * 10) \div POS>>
    ELSE <<order.kind>>

\* Snapshot::from_world
from_world(w, tick, time) ==
    [tick |-> tick, time |-> time,
     squads |-> [k \in 1..Len(w.squads) |->
        LET q == w.squads[QueryOrder(w.squads)[k]]
        IN [id |-> q.squad_id, faction |-> q.faction, x |-> q.x, y |-> q.y,
            vx |-> q.vx, vy |-> q.vy, health |-> q.health,
            health_max |-> q.health_max, size |-> DefaultSize,
            morale |-> q.morale, suppression |-> q.suppression,
            order |-> FormatOrder(q.order)]],
     destructibles |-> [k \in DOMAIN w.destructibles |->
        LET d == w.destructibles[k]
        IN [id |-> d.id, x |-> d.x, y |-> d.y, dtype |-> d.dtype,
            state |-> d.state, health |-> d.health, health_max |-> d.health_max]],
     terrain_damage |-> [k \in DOMAIN w.events |->
        [x |-> w.events[k].x, y |-> w.events[k].y,
         radius |-> w.events[k].radius, depth |-> w.events[k].depth]],
     new_craters |-> <<>>, terrain_dirty |-> FALSE]

\* the Snapshot that SimWorld::snapshot returns
snapshot(w) ==
    [from_world(w, w.tick, w.time) EXCEPT !.new_craters = w.new_craters,
                                          !.terrain_dirty = w.terrain_dirty]

\* a snapshot call that leaves the crater buffer and the dirty flag alone
after_snapshot_keeping(w) == w

\* a snapshot call that also drains the terrain damage events it reports
after_snapshot_draining(w) ==
    [w EXCEPT !.new_craters = <<>>, !.terrain_dirty = FALSE, !.events = <<>>]

\* the SimWorld that SimWorld::snapshot leaves behind
after_snapshot(w) == [w EXCEPT !.new_craters = <<>>, !.terrain_dirty = FALSE]

-----------------------------------------------------------------------------
(* godot_bridge.rs: the flat snapshot buffer.  An order string is carried as
   the tuple FormatOrder builds: its first element is the text before the
   parenthesis.  Ids, counts and flags are whole numbers; the other floats
   keep the scale of the snapshot field they copy. *)

faction_to_id(faction) ==
    CASE faction = "Blue" -> 0
      [] faction = "Red" -> 1
      [] OTHER -> 0

\* order_to_id comparing the whole string where the code tests a prefix
order_to_id_exact(order) ==
    IF order = <<"Hold">> THEN 0
    ELSE IF order = <<"MoveTo">> THEN 1
    ELSE IF order = <<"AttackMove">> THEN 2
    ELSE IF order = <<"Retreat">> THEN 3
    ELSE 0

\* order == "Hold", order.starts_with("MoveTo"), ...
order_to_id(order) ==
    IF order = <<"Hold">> THEN 0
    ELSE IF order[1] = "MoveTo" THEN 1
    ELSE IF order[1] = "AttackMove" THEN 2
    ELSE IF order = <<"Retreat">> THEN 3
    ELSE 0

is_routing(order) == IF order = <<"Retreat">> THEN 1 ELSE 0

\* godot_bridge::is_alive
health_is_alive(health) == IF health > 0 THEN 1 ELSE 0

\* the fourteen pushes of the loop body of snapshot_to_flatbuffer
SquadFloats(squad) ==
    <<squad.id, squad.x, squad.y, squad.vx, squad.vy,
      faction_to_id(squad.faction), squad.size, squad.health, squad.health_max,
      squad.morale, squad.suppression,
      health_is_alive(squad.health), is_routing(squad.order), order_to_id(squad.order)>>

\* the loop of snapshot_to_flatbuffer from squad k
RECURSIVE PushSquads(_, _, _)
PushSquads(buffer, squads, k) ==
    IF k > Len(squads) THEN buffer
    ELSE PushSquads(buffer \o SquadFloats(squads[k]), squads, k + 1)

snapshot_to_flatbuffer(snap) ==
    Bind(snap.squads, LAMBDA squads : PushSquads(<<Len(squads)>>, squads, 1))

-----------------------------------------------------------------------------
(* api.rs: the schedule built by with_config, step and fixed_update *)

Systems ==
    {"spatial_grid_update_system", "lod_assignment_system",
     "sector_assignment_system", "activity_flags_system",
     "threat_awareness_system", "nearby_friendlies_system",
     "behavior_state_system", "ai_order_system", "flocking_system",
     "order_system", "movement_system", "combat_system",
     "suppression_decay_system", "morale_system", "rout_system",
     "terrain_damage_to_destructibles_system", "destruction_state_system"}

\* the order in which with_config lists the systems
ListedOrder ==
    <<"spatial_grid_update_system", "lod_assignment_system",
      "sector_assignment_system", "activity_flags_system",
      "threat_awareness_system", "nearby_friendlies_system",
      "behavior_state_system", "ai_order_system", "flocking_system",
      "order_system", "movement_system", "combat_system",
      "suppression_decay_system", "morale_system", "rout_system",
      "terrain_damage_to_destructibles_system", "destruction_state_system">>

\* the constraints of a schedule whose groups 4 and 5 are added without
\* .chain()
Before_unchained ==
    {<<"spatial_grid_update_system", s>> :
        s \in {"threat_awareness_system", "nearby_friendlies_system",
               "behavior_state_system"}}
    \cup {<<"behavior_state_system", s>> : s \in {"ai_order_system", "flocking_system"}}
    \cup {<<"flocking_system", s>> :
            s \in {"order_system", "movement_system", "combat_system",
                   "suppression_decay_system", "morale_system", "rout_system"}}
    \cup {<<"rout_system", s>> :
            s \in {"terrain_damage_to_destructibles_system", "destruction_state_system"}}

\* the declared ordering constraints: <<a, b>> says a runs before b
\* (.after() of groups 2 to 5, .chain() of groups 4 and 5)
Before ==
    {<<"spatial_grid_update_system", s>> :
        s \in {"threat_awareness_system", "nearby_friendlies_system",
               "behavior_state_system"}}
    \cup {<<"behavior_state_system", s>> : s \in {"ai_order_system", "flocking_system"}}
    \cup {<<"flocking_system", s>> :
            s \in {"order_system", "movement_system", "combat_system",
                   "suppression_decay_system", "morale_system", "rout_system"}}
    \cup {<<"order_system", "movement_system">>, <<"movement_system", "combat_system">>,
          <<"combat_system", "suppression_decay_system">>,
          <<"suppression_decay_system", "morale_system">>,
          <<"morale_system", "rout_system">>}
    \cup {<<"rout_system", s>> :
            s \in {"terrain_damage_to_destructibles_system", "destruction_state_system"}}
    \cup {<<"terrain_damage_to_destructibles_system", "destruction_state_system">>}

\* a system may run once every system declared before it has run
Ready(w, s) ==
    /\ s \notin w.ran
    /\ \A c \in Before : c[2] = s => c[1] \in w.ran

\* one system of the schedule applied to the world
RunSystem(w, s) ==
    CASE s = "spatial_grid_update_system" -> spatial_grid_update_system(w)
      [] s = "lod_assignment_system" -> lod_assignment_system(w)
      [] s = "sector_assignment_system" -> sector_assignment_system(w)
      [] s = "activity_flags_system" -> activity_flags_system(w)
      [] s = "threat_awareness_system" -> threat_awareness_system(w)
      [] s = "nearby_friendlies_system" -> nearby_friendlies_system(w)
      [] s = "behavior_state_system" -> behavior_state_system(w)
      [] s = "ai_order_system" -> ai_order_system(w)
      [] s = "flocking_system" -> flocking_system(w)
      [] s = "order_system" -> order_system(w)
      [] s = "movement_system" -> movement_system(w)
      [] s = "combat_system" -> combat_system(w)
      [] s = "suppression_decay_system" -> suppression_decay_system(w)
      [] s = "morale_system" -> morale_system(w)
      [] s = "rout_system" -> rout_system(w)
      [] s = "terrain_damage_to_destructibles_system" ->
            terrain_damage_to_destructibles_system(w)
      [] s = "destruction_state_system" -> destruction_state_system(w)

\* schedule.run reaching system s
RunScheduled(w, s) == [RunSystem(w, s) EXCEPT !.ran = @ \cup {s}]

\* the loop test of step written with > for >=
StepLoop_strict(w) ==
    IF w.time_accumulator > w.config.fixed_timestep
    THEN [w EXCEPT !.pc = "tick", !.ran = {},
                   !.DeltaTime = w.config.fixed_timestep, !.SimTick = @ + 1]
    ELSE [w EXCEPT !.pc = "idle", !.ran = {},
                   !.terrain = terrain_update(@, w.step_dt)]

\* the head of the while loop of step: either fixed_update starts (DeltaTime
\* set, SimTick incremented, schedule about to run) or the loop is left and
\* terrain.update(dt) ends the call
StepLoop(w) ==
    IF w.time_accumulator >= w.config.fixed_timestep
    THEN [w EXCEPT !.pc = "tick", !.ran = {},
                   !.DeltaTime = w.config.fixed_timestep, !.SimTick = @ + 1]
    ELSE [w EXCEPT !.pc = "idle", !.ran = {},
                   !.terrain = terrain_update(@, w.step_dt)]

\* SimWorld::step up to the first system of the first fixed update
step(w, dt) ==
    Bind([w EXCEPT !.time_accumulator = @ + dt, !.step_dt = dt],
         LAMBDA w1 : StepLoop(w1))

\* the end of fixed_update and of the loop body, back to the loop test
end_fixed_update(w) ==
    Bind([w EXCEPT !.tick = @ + 1, !.time = @ + w.config.fixed_timestep,
                   !.time_accumulator = @ - w.config.fixed_timestep],
         LAMBDA w1 : StepLoop(w1))

\* schedule.run with the systems in the listed order
RECURSIVE RunListed(_, _)
RunListed(w, n) ==
    IF n > Len(ListedOrder) THEN w
    ELSE Bind(RunScheduled(w, ListedOrder[n]), LAMBDA w1 : RunListed(w1, n + 1))

\* a whole step call with every schedule run in the listed order
RECURSIVE FinishStepListed(_)
FinishStepListed(w) ==
    IF w.pc = "idle" THEN w
    ELSE Bind(Bind(RunListed(w, 1), LAMBDA w1 : end_fixed_update(w1)),
              LAMBDA w2 : FinishStepListed(w2))

step_listed(w, dt) == Bind(step(w, dt), LAMBDA w1 : FinishStepListed(w1))

-----------------------------------------------------------------------------
(* The host: the calls it makes and the values it passes *)

\* the configuration the worlds are built with: a fixed timestep of 10 s and
\* LOD distances of 10 and 25 units
Configs == {Config(10000, 100, 250)}

\* the squads the host spawns: id, faction, position
SquadInputs ==
    {[id |-> 1, faction |-> "Blue", x |-> 0, y |-> 0],
     [id |-> 3, faction |-> "Red", x |-> 300, y |-> 0]}

\* the targets of move and attack-move orders
Targets == {<<100, 0>>}

\* craters: x, y, radius, depth
CraterInputs == {<<0, 0, 50, 2000>>}

\* barrages: centre x, centre y, spread, count
BarrageInputs == {<<0, 0, 100, 2>>}

\* destructibles: id, position
TreeInputs == {[id |-> 7, x |-> 40, y |-> 0]}
BuildingInputs == {[id |-> 8, x |-> 0, y |-> 60]}

\* damage passed to damage_destructible
DamageInputs == {20000}

\* the dt of step calls: one timestep
StepInputs == {10000}

\* the history of the run: the sum of the dt passed to step, the craters
\* the host has spawned since the last snapshot call, and the number of
\* snapshot calls and the tick of the last one, and the number of order calls
\* and of spawn, order and damage calls made, the ids of the squads a mass
\* spawn was asked for and the sum of the values the mass spawns returned,
\* and the names of the calls that were made with an id no entity carries
InitHistory ==
    [sum_dt |-> 0, since |-> <<>>, snaps |-> 0, snap_tick |-> 0, orders |-> 0,
     calls |-> 0, spawned |-> <<>>, returned |-> 0, missed |-> {}]

\* the host may make another call
MayCall == sim.pc = "idle" /\ history.calls < MaxCalls

Idle == sim.pc = "idle"

IdsInUse(w) == {w.squads[i].squad_id : i \in DOMAIN w.squads}

Init ==
    /\ \E c \in Configs : sim = with_config(c) /\ twin = with_config(c)
    /\ history = InitHistory

SpawnAiSquad ==
    /\ MayCall /\ Len(sim.squads) < MaxSquads
    /\ \E q \in SquadInputs :
        /\ q.id \notin IdsInUse(sim)
        /\ sim' = spawn_ai_squad(sim, q.id, q.faction, q.x, q.y)
        /\ twin' = spawn_ai_squad(twin, q.id, q.faction, q.x, q.y)
    /\ history' = [history EXCEPT !.calls = @ + 1]

OrderMove ==
    /\ MayCall /\ history.orders < MaxOrders
    /\ \E id \in IdsInUse(sim), t \in Targets :
        /\ sim' = order_move(sim, id, t[1], t[2])
        /\ twin' = order_move(twin, id, t[1], t[2])
    /\ history' = [history EXCEPT !.orders = @ + 1, !.calls = @ + 1]

OrderAttackMove ==
    /\ MayCall /\ history.orders < MaxOrders
    /\ \E id \in IdsInUse(sim), t \in Targets :
        /\ sim' = order_attack_move(sim, id, t[1], t[2])
        /\ twin' = order_attack_move(twin, id, t[1], t[2])
    /\ history' = [history EXCEPT !.orders = @ + 1, !.calls = @ + 1]

OrderHold ==
    /\ MayCall /\ history.orders < MaxOrders
    /\ \E id \in IdsInUse(sim) :
        /\ sim' = order_hold(sim, id)
        /\ twin' = order_hold(twin, id)
    /\ history' = [history EXCEPT !.orders = @ + 1, !.calls = @ + 1]

OrderRetreat ==
    /\ MayCall /\ history.orders < MaxOrders
    /\ \E id \in IdsInUse(sim) :
        /\ sim' = order_retreat(sim, id)
        /\ twin' = order_retreat(twin, id)
    /\ history' = [history EXCEPT !.orders = @ + 1, !.calls = @ + 1]

SpawnCrater ==
    /\ MayCall /\ Len(sim.terrain.craters) < MaxCraters
    /\ \E c \in CraterInputs :
        /\ sim' = spawn_crater(sim, c[1], c[2], c[3], c[4])
        /\ twin' = spawn_crater(twin, c[1], c[2], c[3], c[4])
        /\ history' = [history EXCEPT !.calls = @ + 1, !.since =
              Append(@, [x |-> c[1], y |-> c[2], radius |-> c[3],
                         depth |-> c[4], age |-> 0])]

SpawnBarrage ==
    /\ MayCall
    /\ \E b \in BarrageInputs :
        /\ Len(sim.terrain.craters) + b[4] <= MaxCraters
        /\ sim' = spawn_barrage(sim, b[1], b[2], b[3], b[4])
        /\ twin' = spawn_barrage(twin, b[1], b[2], b[3], b[4])
        /\ history' = [history EXCEPT !.calls = @ + 1, !.since =
              @ \o SubSeq(sim'.terrain.craters, Len(sim.terrain.craters) + 1,
                          Len(sim'.terrain.craters))]

SpawnTree ==
    /\ MayCall /\ Len(sim.destructibles) < MaxDestructibles
    /\ \E d \in TreeInputs :
        /\ sim' = spawn_tree(sim, d.id, d.x, d.y)
        /\ twin' = spawn_tree(twin, d.id, d.x, d.y)
    /\ history' = [history EXCEPT !.calls = @ + 1]

SpawnBuilding ==
    /\ MayCall /\ Len(sim.destructibles) < MaxDestructibles
    /\ \E d \in BuildingInputs :
        /\ sim' = spawn_building(sim, d.id, d.x, d.y)
        /\ twin' = spawn_building(twin, d.id, d.x, d.y)
    /\ history' = [history EXCEPT !.calls = @ + 1]

DamageDestructible ==
    /\ MayCall
    /\ \E i \in DOMAIN sim.destructibles, damage \in DamageInputs :
        /\ sim.destructibles[i].health > 0
        /\ sim' = damage_destructible(sim, sim.destructibles[i].id, damage)
        /\ twin' = damage_destructible(twin, sim.destructibles[i].id, damage)
    /\ history' = [history EXCEPT !.calls = @ + 1]

\* the number of fixed updates a step call of dt will run
UpdatesOf(w, dt) == (w.time_accumulator + dt) \div w.config.fixed_timestep

\* the host calls step(dt); the call runs up to the first schedule run
Step ==
    /\ Idle
    /\ \E dt \in StepInputs :
        /\ sim.tick + UpdatesOf(sim, dt) <= MaxTick
        /\ sim' = step(sim, dt)
        /\ twin' = step(twin, dt)
        /\ history' = [history EXCEPT !.sum_dt = @ + dt]

\* the schedule runs one system that is ready
Schedule ==
    /\ sim.pc = "tick"
    /\ \E s \in Systems :
        /\ Ready(sim, s)
        /\ sim' = RunScheduled(sim, s)
        /\ twin' = RunScheduled(twin, s)
    /\ UNCHANGED history

\* schedule.run returns; fixed_update and the loop body end
EndFixedUpdate ==
    /\ sim.pc = "tick" /\ sim.ran = Systems
    /\ sim' = end_fixed_update(sim)
    /\ twin' = end_fixed_update(twin)
    /\ UNCHANGED history

\* the host calls snapshot() on sim; twin is the same run without it
TakeSnapshot ==
    /\ Idle /\ history.snaps < MaxSnapshots
    /\ sim' = after_snapshot(sim)
    /\ UNCHANGED twin
    /\ history' = [history EXCEPT !.snaps = @ + 1, !.snap_tick = sim.tick,
                                  !.since = <<>>]

Next ==
    \/ SpawnAiSquad
    \/ OrderMove \/ OrderAttackMove \/ OrderHold \/ OrderRetreat
    \/ SpawnCrater \/ SpawnBarrage \/ SpawnTree \/ SpawnBuilding
    \/ DamageDestructible
    \/ Step \/ Schedule \/ EndFixedUpdate
    \/ TakeSnapshot

Spec == Init /\ [][Next]_vars

-----------------------------------------------------------------------------
(* A populated world stepped through a battle.  sim runs its schedule one
   system at a time in any permitted order; twin is a second world built the
   same way and given the same calls, whose schedule runs in the listed
   order. *)

\* the squads spawned at construction, in spawn order: player-controlled
\* Blue squads without the AI bundle, then an AI-controlled Red squad, as
\* new_default_test_world spawns them
BattleSquads ==
    <<[id |-> 1, faction |-> "Blue", x |-> 0, y |-> 0, ai |-> FALSE],
      [id |-> 2, faction |-> "Blue", x |-> 0, y |-> 150, ai |-> FALSE],
      [id |-> 3, faction |-> "Red", x |-> 300, y |-> 0, ai |-> TRUE]>>

RECURSIVE SpawnAll(_, _, _)
SpawnAll(w, inputs, n) ==
    IF n > Len(inputs) THEN w
    ELSE Bind(SpawnSquad(w, inputs[n].id, inputs[n].faction, inputs[n].x,
                         inputs[n].y, inputs[n].ai),
              LAMBDA w1 : SpawnAll(w1, inputs, n + 1))

InitBattle ==
    /\ \E c \in Configs :
        /\ sim = SpawnAll(with_config(c), BattleSquads, 1)
        /\ twin = SpawnAll(with_config(c), BattleSquads, 1)
    /\ history = InitHistory

\* the dt of step calls in the battle: none, half a timestep, one, two
BattleStepInputs == {0, 5000, 10000, 20000}

StepBattle ==
    /\ Idle
    /\ \E dt \in BattleStepInputs :
        /\ sim.tick + UpdatesOf(sim, dt) <= MaxBattleTick
        /\ sim' = step(sim, dt)
        /\ twin' = step_listed(twin, dt)
        /\ history' = [history EXCEPT !.sum_dt = @ + dt]

ScheduleBattle ==
    /\ sim.pc = "tick"
    /\ \E s \in Systems :
        /\ Ready(sim, s)
        /\ sim' = RunScheduled(sim, s)
    /\ UNCHANGED <<twin, history>>

EndFixedUpdateBattle ==
    /\ sim.pc = "tick" /\ sim.ran = Systems
    /\ sim' = end_fixed_update(sim)
    /\ UNCHANGED <<twin, history>>

NextBattle ==
    \/ StepBattle \/ ScheduleBattle \/ EndFixedUpdateBattle

SpecBattle == InitBattle /\ [][NextBattle]_vars

-----------------------------------------------------------------------------
(* A SpatialGrid used on its own: entities are inserted, moved and removed,
   the grid is cleared, and query_radius is called.  sim holds the grid and,
   until the grid is next changed, the arguments of the last query and the
   Vec it returned. *)

\* the positions entities are inserted at: four at 5 units from the origin,
\* in three different cells, and one at 30 units
GridPoints == {<<-50, 0>>, <<50, 0>>, <<0, 50>>, <<0, -50>>, <<300, 0>>}

\* the queries made: centre x, centre y, radius
GridQueries == {<<0, 0, 50>>, <<0, 0, 300>>, <<50, 0, 60>>}

GridEntityIds == 0..(MaxGridEntities - 1)

InitGrid ==
    /\ sim = [grid |-> NewGrid(GridCellSize), query |-> <<>>, results |-> <<>>]
    /\ twin = [grid |-> NewGrid(GridCellSize), query |-> <<>>, results |-> <<>>]
    /\ history = InitHistory

GridMayCall == history.calls < MaxGridCalls

\* grid.insert(entity, x, y, faction)
GridInsertCall ==
    /\ GridMayCall
    /\ \E entity \in GridEntityIds, p \in GridPoints :
        sim' = [grid |-> GridInsert(sim.grid, entity, p[1], p[2], entity % 2),
                query |-> <<>>, results |-> <<>>]
    /\ history' = [history EXCEPT !.calls = @ + 1]
    /\ UNCHANGED twin

\* grid.remove(entity)
GridRemoveCall ==
    /\ GridMayCall
    /\ \E entity \in GridEntityIds :
        /\ entity \in DOMAIN sim.grid.entity_cells
        /\ sim' = [grid |-> GridRemove(sim.grid, entity),
                   query |-> <<>>, results |-> <<>>]
    /\ history' = [history EXCEPT !.calls = @ + 1]
    /\ UNCHANGED twin

\* grid.clear()
GridClearCall ==
    /\ GridMayCall
    /\ sim.grid.entity_cells # <<>>
    /\ sim' = [grid |-> GridClear(sim.grid), query |-> <<>>, results |-> <<>>]
    /\ history' = [history EXCEPT !.calls = @ + 1]
    /\ UNCHANGED twin

\* grid.query_radius(x, y, radius)
GridQueryCall ==
    /\ \E q \in GridQueries :
        sim' = [sim EXCEPT !.query = q,
                           !.results = query_radius(sim.grid, q[1], q[2], q[3])]
    /\ UNCHANGED <<twin, history>>

NextGrid ==
    \/ GridInsertCall \/ GridRemoveCall \/ GridClearCall \/ GridQueryCall

SpecGrid == InitGrid /\ [][NextGrid]_vars

-----------------------------------------------------------------------------
(* A world populated by mass spawns and then stepped. *)

\* mass spawns: two Blue squads around the origin, one Red squad at (30, 0),
\* and a spawn of no squads
MusterInputs ==
    {[faction |-> "Blue", center_x |-> 0, center_y |-> 0, count |-> 2,
      spread |-> 200, start_id |-> 1],
     [faction |-> "Red", center_x |-> 300, center_y |-> 0, count |-> 1,
      spread |-> 0, start_id |-> 10],
     [faction |-> "Red", center_x |-> 300, center_y |-> 0, count |-> 0,
      spread |-> 100, start_id |-> 20]}

InitMuster ==
    /\ \E c \in Configs : sim = with_config(c) /\ twin = with_config(c)
    /\ history = InitHistory

\* the host calls spawn_mass_squads
SpawnMassSquads ==
    /\ Idle /\ history.calls < MaxMusterCalls
    /\ \E m \in MusterInputs :
        /\ Len(sim.squads) + m.count <= MaxMusterSquads
        /\ \A i \in 0..(m.count - 1) : (m.start_id + i) \notin IdsInUse(sim)
        /\ sim' = spawn_mass_squads(sim, m.faction, m.center_x, m.center_y,
                                    m.count, m.spread, m.start_id)
        /\ history' = [history EXCEPT
              !.calls = @ + 1,
              !.spawned = @ \o [i \in 1..m.count |-> m.start_id + i - 1],
              !.returned = @ + spawn_mass_squads_returns(m.count)]
    /\ UNCHANGED twin

StepMuster ==
    /\ Idle
    /\ \E dt \in StepInputs :
        /\ sim.tick + UpdatesOf(sim, dt) <= MaxMusterTick
        /\ sim' = step(sim, dt)
        /\ history' = [history EXCEPT !.sum_dt = @ + dt]
    /\ UNCHANGED twin

NextMuster ==
    \/ SpawnMassSquads \/ StepMuster \/ ScheduleBattle \/ EndFixedUpdateBattle

SpecMuster == InitMuster /\ [][NextMuster]_vars

-----------------------------------------------------------------------------
(* A world of destructibles that the host damages and shells and then
   steps. *)

\* the destructibles spawned at construction: a tree at (4, 0) and a building
\* at (0, 6)
InitSiege ==
    /\ \E c \in Configs :
        /\ sim = spawn_building(spawn_tree(with_config(c), 7, 40, 0), 8, 0, 60)
        /\ twin = with_config(c)
    /\ history = InitHistory

\* the amounts passed to damage_destructible: any f32, here 20 and -20
SiegeDamageInputs == {20000, -20000}

\* a crater 2 units from the tree: x, y, radius, depth
SiegeCraterInputs == {<<60, 0, 50, 2000>>}

\* the dt passed to step: any f32, here one timestep and a negative half
SiegeStepInputs == {10000, -5000}

SiegeMayCall == Idle /\ history.calls < MaxSiegeCalls

DamageSiege ==
    /\ SiegeMayCall
    /\ \E i \in DOMAIN sim.destructibles, damage \in SiegeDamageInputs :
        sim' = damage_destructible(sim, sim.destructibles[i].id, damage)
    /\ history' = [history EXCEPT !.calls = @ + 1]
    /\ UNCHANGED twin

CraterSiege ==
    /\ SiegeMayCall /\ sim.terrain.craters = <<>>
    /\ \E c \in SiegeCraterInputs : sim' = spawn_crater(sim, c[1], c[2], c[3], c[4])
    /\ history' = [history EXCEPT !.calls = @ + 1]
    /\ UNCHANGED twin

StepSiege ==
    /\ Idle
    /\ \E dt \in SiegeStepInputs :
        /\ history.sum_dt + dt >= 0
        /\ history.sum_dt + dt <= MaxSiegeTick * sim.config.fixed_timestep
        /\ sim' = step(sim, dt)
        /\ history' = [history EXCEPT !.sum_dt = @ + dt]
    /\ UNCHANGED twin

NextSiege ==
    \/ DamageSiege \/ CraterSiege \/ StepSiege
    \/ ScheduleBattle \/ EndFixedUpdateBattle

SpecSiege == InitSiege /\ [][NextSiege]_vars

-----------------------------------------------------------------------------
(* An empty world whose terrain the host shells: craters that overlap, the
   same crater again, a crater of depth 0, a crater of radius 0 on the centre
   of a cell, and a barrage. *)

InitShelling ==
    /\ \E c \in Configs : sim = with_config(c) /\ twin = with_config(c)
    /\ history = InitHistory

\* craters: x, y, radius, depth.  Cell centres lie at odd coordinates
\* (origin -200, cell size 2), so (1, 1) is the centre of a cell.
ShellInputs == {<<0, 0, 50, 2000>>, <<30, 0, 50, 1000>>, <<0, 0, 50, 0>>, <<10, 10, 0, 1000>>}

ShellCrater ==
    /\ Idle /\ Len(sim.terrain.craters) < MaxShells
    /\ \E c \in ShellInputs : sim' = spawn_crater(sim, c[1], c[2], c[3], c[4])
    /\ history' = [history EXCEPT !.calls = @ + 1]
    /\ UNCHANGED twin

ShellBarrage ==
    /\ Idle
    /\ \E b \in BarrageInputs :
        /\ Len(sim.terrain.craters) + b[4] <= MaxShells
        /\ sim' = spawn_barrage(sim, b[1], b[2], b[3], b[4])
    /\ history' = [history EXCEPT !.calls = @ + 1]
    /\ UNCHANGED twin

StepShelling ==
    /\ Idle
    /\ \E dt \in StepInputs :
        /\ history.sum_dt + dt <= MaxShellTick * sim.config.fixed_timestep
        /\ sim' = step(sim, dt)
        /\ history' = [history EXCEPT !.sum_dt = @ + dt]
    /\ UNCHANGED twin

NextShelling ==
    \/ ShellCrater \/ ShellBarrage \/ StepShelling
    \/ ScheduleBattle \/ EndFixedUpdateBattle

SpecShelling == InitShelling /\ [][NextShelling]_vars

-----------------------------------------------------------------------------
(* Three squads out of each other's sight in a world of the default
   configuration (30 Hz); two of them are each given one move order to a
   target between one and two units away.  The host keeps calling step. *)

\* SimConfig::default(): fixed_timestep 1.0 / 30.0
DefaultTimestep == 33

DefaultConfig == Config(DefaultTimestep, 1000, 2000)

MarchSquads ==
    <<[id |-> 1, faction |-> "Blue", x |-> 3, y |-> 1, ai |-> FALSE],
      [id |-> 3, faction |-> "Red", x |-> 3000, y |-> 0, ai |-> TRUE],
      [id |-> 2, faction |-> "Blue", x |-> -3000, y |-> -3000, ai |-> FALSE]>>

\* move orders: squad id, target x, target y.  Squad 1 starts next to the
\* corner of four sectors and is sent across it.
MarchOrders == {<<1, -9, -8>>, <<3, 2989, -5>>}

\* the dt of step calls: one timestep
MarchStepInputs == {DefaultTimestep}

InitMarch ==
    /\ sim = SpawnAll(with_config(DefaultConfig), MarchSquads, 1)
    /\ twin = with_config(DefaultConfig)
    /\ history = InitHistory

\* the squad of the given id
SquadWithId(w, id) == w.squads[CHOOSE i \in DOMAIN w.squads : w.squads[i].squad_id = id]

OrderMarch ==
    /\ Idle /\ sim.tick <= MaxMarchOrderTick
    /\ \E o \in MarchOrders :
        /\ SquadWithId(sim, o[1]).order = Hold
        /\ sim' = order_move(sim, o[1], o[2], o[3])
    /\ history' = [history EXCEPT !.orders = @ + 1]
    /\ UNCHANGED twin

StepMarch ==
    /\ Idle
    /\ \E dt \in MarchStepInputs :
        /\ sim.tick + UpdatesOf(sim, dt) <= MaxMarchTick
        /\ sim' = step(sim, dt)
        /\ history' = [history EXCEPT !.sum_dt = @ + dt]
    /\ UNCHANGED twin

NextMarch ==
    \/ OrderMarch \/ StepMarch
    \/ ScheduleBattle \/ EndFixedUpdateBattle

SpecMarch == InitMarch /\ [][NextMarch]_vars

\* the host goes on calling step, and a schedule that has started runs every
\* system and ends
SpecMarchFair ==
    /\ SpecMarch
    /\ WF_vars(StepMarch) /\ WF_vars(ScheduleBattle) /\ WF_vars(EndFixedUpdateBattle)

-----------------------------------------------------------------------------
(* A skirmish: two squads of one faction within fire range of a single squad
   of the other, the lone squad AI-controlled or not, in a world whose fixed
   update lasts long enough for fire to pin and to break a squad.  Before
   or after the first fixed update the host may order the lone squad to
   move; it calls step for one fixed update at a time; the schedule runs
   its systems in any order it permits. *)

\* a fixed update of 9 seconds
SkirmishConfig == Config(9000, 100, 250)

SkirmishSquads(lone_ai) ==
    <<[id |-> 1, faction |-> "Blue", x |-> 0, y |-> 0, ai |-> FALSE],
      [id |-> 2, faction |-> "Blue", x |-> 0, y |-> 150, ai |-> FALSE],
      [id |-> 3, faction |-> "Red", x |-> 300, y |-> 0, ai |-> lone_ai]>>

\* orders: squad id, order, target
SkirmishOrders ==
    {<<3, "MoveTo", 900, 0>>, <<3, "AttackMove", 0, 0>>}

InitSkirmish ==
    /\ \E lone_ai \in BOOLEAN :
        sim = SpawnAll(with_config(SkirmishConfig), SkirmishSquads(lone_ai), 1)
    /\ twin = with_config(SkirmishConfig)
    /\ history = InitHistory

OrderSkirmish ==
    /\ Idle /\ sim.tick <= MaxSkirmishOrderTick
    /\ history.orders < MaxSkirmishOrders
    /\ \E o \in SkirmishOrders :
        sim' = IF o[2] = "MoveTo" THEN order_move(sim, o[1], o[3], o[4])
               ELSE order_attack_move(sim, o[1], o[3], o[4])
    /\ history' = [history EXCEPT !.orders = @ + 1]
    /\ UNCHANGED twin

StepSkirmish ==
    /\ Idle
    /\ sim.tick + UpdatesOf(sim, SkirmishConfig.fixed_timestep) <= MaxSkirmishTick
    /\ sim' = step(sim, SkirmishConfig.fixed_timestep)
    /\ history' = [history EXCEPT !.sum_dt = @ + SkirmishConfig.fixed_timestep]
    /\ UNCHANGED twin

NextSkirmish ==
    \/ OrderSkirmish \/ StepSkirmish
    \/ ScheduleBattle \/ EndFixedUpdateBattle

SpecSkirmish == InitSkirmish /\ [][NextSkirmish]_vars

-----------------------------------------------------------------------------
(* An ambush: one squad with two enemies at the same distance, on opposite
   sides of it, spawned in either order, or in one grid cell.  The host calls step
   as in the battle. *)

AmbushLayouts ==
    {<<[id |-> 1, faction |-> "Blue", x |-> 0, y |-> 0, ai |-> FALSE],
       [id |-> 2, faction |-> "Red", x |-> 300, y |-> 0, ai |-> FALSE],
       [id |-> 3, faction |-> "Red", x |-> -300, y |-> 0, ai |-> FALSE]>>,
     <<[id |-> 1, faction |-> "Blue", x |-> 0, y |-> 0, ai |-> FALSE],
       [id |-> 3, faction |-> "Red", x |-> -300, y |-> 0, ai |-> FALSE],
       [id |-> 2, faction |-> "Red", x |-> 300, y |-> 0, ai |-> FALSE]>>,
     <<[id |-> 1, faction |-> "Blue", x |-> 0, y |-> 0, ai |-> FALSE],
       [id |-> 2, faction |-> "Red", x |-> 330, y |-> 40, ai |-> FALSE],
       [id |-> 3, faction |-> "Red", x |-> 310, y |-> 120, ai |-> FALSE]>>}

InitAmbush ==
    /\ \E c \in Configs, layout \in AmbushLayouts :
        /\ sim = SpawnAll(with_config(c), layout, 1)
        /\ twin = SpawnAll(with_config(c), layout, 1)
    /\ history = InitHistory

SpecAmbush == InitAmbush /\ [][NextBattle]_vars

-----------------------------------------------------------------------------
(* combat.rs: the split combat systems, on f32 values.

   A volley is the list, in query order, of what compute_attacker_combat
   returns for each attacker of one fixed update: the attacker, its target,
   final_damage and the suppression.  The volleys are those of the first
   fixed update (dt = 1/30 s, every squad at full health, suppression 0,
   morale 1, LOD High) of a default world holding a Red squad (entity 0) at
   (0,0) and Blue squads (entities 1, 2, ...) around it:
     VolleyThree    Blue squads at (30,0), (0,45), (-50,0)
     VolleyTwo      Blue squads at (30,0), (0,45)
     VolleyNear     Blue squads at (30,0), (0,35), (-40,0)
   The damage at 30 units is 0.192..., at 35 0.160..., at 40 0.128..., at 45
   0.096..., at 50 0.064...; the suppression is hits * 0.2. *)

VolleyThree ==
    <<[attacker |-> 0, target |-> 1, damage |-> <<12884903, -26>>, suppression |-> <<10307923, -31>>],
      [attacker |-> 1, target |-> 0, damage |-> <<12884903, -26>>, suppression |-> <<10307923, -31>>],
      [attacker |-> 2, target |-> 0, damage |-> <<12884903, -27>>, suppression |-> <<10307923, -32>>],
      [attacker |-> 3, target |-> 0, damage |-> <<8589935, -27>>, suppression |-> <<13743896, -33>>]>>

VolleyTwo ==
    <<[attacker |-> 0, target |-> 1, damage |-> <<12884903, -26>>, suppression |-> <<10307923, -31>>],
      [attacker |-> 1, target |-> 0, damage |-> <<12884903, -26>>, suppression |-> <<10307923, -31>>],
      [attacker |-> 2, target |-> 0, damage |-> <<12884903, -27>>, suppression |-> <<10307923, -32>>]>>

VolleyNear ==
    <<[attacker |-> 0, target |-> 1, damage |-> <<12884903, -26>>, suppression |-> <<10307923, -31>>],
      [attacker |-> 1, target |-> 0, damage |-> <<12884903, -26>>, suppression |-> <<10307923, -31>>],
      [attacker |-> 2, target |-> 0, damage |-> <<10737420, -26>>, suppression |-> <<8589936, -31>>],
      [attacker |-> 3, target |-> 0, damage |-> <<8589935, -26>>, suppression |-> <<13743896, -32>>]>>

Volleys == {VolleyThree, VolleyTwo, VolleyNear}

VolleyEntities == 0..3

\* CombatResults::default()
NoResults ==
    [damage |-> [en \in VolleyEntities |-> None],
     suppression |-> [en \in VolleyEntities |-> None], fired |-> <<>>]

\* *map.entry(entity).or_insert(0.0) += amount
EntryAdd(map, entity, amount) ==
    [map EXCEPT ![entity] = F32Add(IF @ = None THEN F32Zero ELSE @, amount)]

\* map.insert(entity, amount)
EntryInsert(map, entity, amount) == [map EXCEPT ![entity] = amount]

\* the loop of CombatResults::merge over one map, from entity en
RECURSIVE MergeMap(_, _, _)
MergeMap(map, other, en) ==
    IF en \notin VolleyEntities THEN map
    ELSE MergeMap(IF other[en] = None THEN map ELSE EntryAdd(map, en, other[en]),
                  other, en + 1)

RECURSIVE MergeMap_inserting(_, _, _)
MergeMap_inserting(map, other, en) ==
    IF en \notin VolleyEntities THEN map
    ELSE MergeMap_inserting(IF other[en] = None THEN map
                            ELSE EntryInsert(map, en, other[en]), other, en + 1)

\* a merge that inserts the other map's entries
merge_inserting(results, other) ==
    [damage |-> MergeMap_inserting(results.damage, other.damage, 0),
     suppression |-> MergeMap_inserting(results.suppression, other.suppression, 0),
     fired |-> results.fired \o other.fired]

\* CombatResults::merge
merge(results, other) ==
    [damage |-> MergeMap(results.damage, other.damage, 0),
     suppression |-> MergeMap(results.suppression, other.suppression, 0),
     fired |-> results.fired \o other.fired]

\* compute_attacker_combat, from the target on
compute_attacker_combat(intent) ==
    [damage |-> EntryAdd(NoResults.damage, intent.target, intent.damage),
     suppression |-> EntryAdd(NoResults.suppression, intent.target, intent.suppression),
     fired |-> <<intent.attacker>>]

\* the attacker loop of combat_system, from attacker n of the volley
RECURSIVE ProcessAttackers(_, _, _)
ProcessAttackers(results, volley, n) ==
    IF n > Len(volley) THEN results
    ELSE ProcessAttackers(
             [damage |-> EntryAdd(results.damage, volley[n].target, volley[n].damage),
              suppression |-> EntryAdd(results.suppression, volley[n].target,
                                       volley[n].suppression),
              fired |-> Append(results.fired, volley[n].attacker)],
             volley, n + 1)

\* Health::damage and Suppression::add on f32
F32HealthDamage(current, amount) ==
    IF F32Less(amount, current) THEN F32Sub(current, amount) ELSE F32Zero

\* the two loops that apply results to the squads
ApplyResults(squads, results, current_tick) ==
    [i \in DOMAIN squads |->
        [entity |-> squads[i].entity,
         health |-> IF results.damage[squads[i].entity] = None THEN squads[i].health
                    ELSE F32HealthDamage(squads[i].health,
                                         results.damage[squads[i].entity]),
         last_damage_tick |-> IF results.damage[squads[i].entity] = None
                              THEN squads[i].last_damage_tick ELSE current_tick,
         suppression |-> IF results.suppression[squads[i].entity] = None
                         THEN squads[i].suppression
                         ELSE F32Add(squads[i].suppression,
                                     results.suppression[squads[i].entity]),
         is_firing |-> squads[i].is_firing
                          \/ \E k \in DOMAIN results.fired :
                                results.fired[k] = squads[i].entity]]

\* the squads of a volley before combat: health 100.0, suppression 0.0
VolleySquads(volley) ==
    [i \in 1..Len(volley) |->
        [entity |-> volley[i].attacker, health |-> <<13107200, -17>>,
         last_damage_tick |-> 0, suppression |-> F32Zero, is_firing |-> FALSE]]

\* the squads after combat_system
VolleyCombat(volley) ==
    ApplyResults(VolleySquads(volley), ProcessAttackers(NoResults, volley, 1), 1)

InitVolley ==
    /\ \E volley \in Volleys :
        /\ sim = [pc |-> "gather", volley |-> volley, squads |-> VolleySquads(volley),
                  gathered |-> {}, partials |-> <<>>, merged |-> {},
                  pending |-> NoResults]
        /\ twin = [squads |-> VolleyCombat(volley)]
    /\ history = InitHistory

\* the gather phase computes the result of one more attacker, as a partial
\* result of its own or merged into one there is
GatherAttacker ==
    /\ sim.pc = "gather"
    /\ \E n \in DOMAIN sim.volley \ sim.gathered :
        \E k \in 1..(Len(sim.partials) + 1) :
            sim' = [sim EXCEPT
                      !.gathered = @ \cup {n},
                      !.partials =
                          IF k > Len(@)
                          THEN Append(@, compute_attacker_combat(sim.volley[n]))
                          ELSE [@ EXCEPT ![k] =
                                   merge(@, compute_attacker_combat(sim.volley[n]))],
                      !.pc = IF sim.gathered \cup {n} = DOMAIN sim.volley
                             THEN "merge" ELSE "gather"]
    /\ UNCHANGED <<twin, history>>

\* pending.0.merge(partial), for the partial results in any order
MergePartial ==
    /\ sim.pc = "merge"
    /\ \E k \in DOMAIN sim.partials \ sim.merged :
        sim' = [sim EXCEPT !.merged = @ \cup {k},
                           !.pending = merge(@, sim.partials[k]),
                           !.pc = IF sim.merged \cup {k} = DOMAIN sim.partials
                                  THEN "apply" ELSE "merge"]
    /\ UNCHANGED <<twin, history>>

\* combat_apply_system
CombatApply ==
    /\ sim.pc = "apply"
    /\ sim' = [sim EXCEPT !.squads = ApplyResults(@, sim.pending, 1), !.pc = "done"]
    /\ UNCHANGED <<twin, history>>

NextVolley == GatherAttacker \/ MergePartial \/ CombatApply

SpecVolley == InitVolley /\ [][NextVolley]_vars

-----------------------------------------------------------------------------
(* behavior_state_system over one AI squad, its components drawn from values
   on both sides of every threshold of determine_behavior_state, the
   preferences included, and its previous state from all of BehaviorState. *)

BehaviorStates ==
    {"Idle", "Advancing", "Engaging", "TakingCover", "Flanking", "Retreating",
     "Regrouping"}

BehaviorOrders == {Hold, Retreat, MoveTo(100, 0), AttackMove(100, 0)}

BehaviorThreats ==
    {[DefaultThreat EXCEPT !.threat_level = l, !.time_since_fire = t,
                           !.enemies_in_range = n] :
        l \in {700, 800}, t \in {0, 2000}, n \in {0, 2, 3}}

BehaviorPreferences ==
    [aggression : {400, 500}, cover_seeking : {500, 600},
     flanking_tendency : {600, 700}]

BehaviorMorales == {100, 200, 1000}
BehaviorSuppressions == {0, 500, 1000}

InitBehavior ==
    /\ \E o \in BehaviorOrders, t \in BehaviorThreats, p \in BehaviorPreferences,
          u \in BehaviorSuppressions, m \in BehaviorMorales, b \in BehaviorStates :
         sim = [pc |-> "query", order |-> o, threat |-> t, prefs |-> p,
                suppression |-> u, morale |-> m, previous |-> b, state |-> b]
    /\ twin = [state |-> "Idle"]
    /\ history = InitHistory

\* the loop body of behavior_state_system
BehaviorStateRun ==
    /\ sim.pc = "query"
    /\ sim' = [sim EXCEPT !.pc = "done",
                          !.state = determine_behavior_state(sim.order, sim.threat,
                                        sim.prefs, sim.suppression, sim.morale)]
    /\ UNCHANGED <<twin, history>>

NextBehavior == BehaviorStateRun

SpecBehavior == InitBehavior /\ [][NextBehavior]_vars

-----------------------------------------------------------------------------
(* A ceasefire: the skirmish above, in which the host, after the first fixed
   update, may order each of the two squads that outnumber the lone one to
   withdraw out of fire range. *)

\* the withdrawal orders: squad id, target
CeasefireOrders == {<<1, -2000, 0>>, <<2, -2000, 150>>}

WithdrawCeasefire ==
    /\ Idle /\ sim.tick > 0 /\ sim.tick <= MaxSkirmishOrderTick
    /\ \E o \in CeasefireOrders :
        /\ SquadWithId(sim, o[1]).order = Hold
        /\ sim' = order_move(sim, o[1], o[2], o[3])
    /\ history' = [history EXCEPT !.orders = @ + 1]
    /\ UNCHANGED twin

StepCeasefire ==
    /\ Idle
    /\ sim.tick + UpdatesOf(sim, SkirmishConfig.fixed_timestep) <= MaxCeasefireTick
    /\ sim' = step(sim, SkirmishConfig.fixed_timestep)
    /\ history' = [history EXCEPT !.sum_dt = @ + SkirmishConfig.fixed_timestep]
    /\ UNCHANGED twin

NextCeasefire ==
    WithdrawCeasefire \/ StepCeasefire \/ ScheduleBattle \/ EndFixedUpdateBattle

SpecCeasefire == InitSkirmish /\ [][NextCeasefire]_vars

\* the host goes on calling step and the schedule goes on running systems
SpecCeasefireFair ==
    /\ SpecCeasefire
    /\ WF_vars(StepCeasefire) /\ WF_vars(ScheduleBattle) /\ WF_vars(EndFixedUpdateBattle)

-----------------------------------------------------------------------------
(* Cratered ground: two opposing squads on open ground within fire range of
   each other.  The host may shell the cell the Blue squad stands on, turning
   it into Rough or Crater, may order the Blue squad to move, and calls step
   for one fixed update at a time. *)

CrateredSquads ==
    <<[id |-> 1, faction |-> "Blue", x |-> 10, y |-> 150, ai |-> FALSE],
      [id |-> 3, faction |-> "Red", x |-> 310, y |-> 150, ai |-> FALSE]>>

\* craters on the centre of the Blue squad's cell: x, y, radius, depth
CrateredShells == {<<10, 150, 50, 1000>>, <<10, 150, 50, 3000>>}

\* the move order: squad id, target
CrateredOrders == {<<1, -2000, 150>>}

InitCratered ==
    /\ \E c \in Configs : sim = SpawnAll(with_config(c), CrateredSquads, 1)
                         /\ twin = with_config(c)
    /\ history = InitHistory

CraterCratered ==
    /\ Idle /\ sim.terrain.craters = <<>>
    /\ \E c \in CrateredShells : sim' = spawn_crater(sim, c[1], c[2], c[3], c[4])
    /\ history' = [history EXCEPT !.calls = @ + 1]
    /\ UNCHANGED twin

OrderCratered ==
    /\ Idle
    /\ \E o \in CrateredOrders :
        /\ SquadWithId(sim, o[1]).order = Hold
        /\ sim' = order_move(sim, o[1], o[2], o[3])
    /\ history' = [history EXCEPT !.orders = @ + 1]
    /\ UNCHANGED twin

StepCratered ==
    /\ Idle
    /\ sim.tick + UpdatesOf(sim, sim.config.fixed_timestep) <= MaxCrateredTick
    /\ sim' = step(sim, sim.config.fixed_timestep)
    /\ history' = [history EXCEPT !.sum_dt = @ + sim.config.fixed_timestep]
    /\ UNCHANGED twin

NextCratered ==
    \/ CraterCratered \/ OrderCratered \/ StepCratered
    \/ ScheduleBattle \/ EndFixedUpdateBattle

SpecCratered == InitCratered /\ [][NextCratered]_vars

-----------------------------------------------------------------------------
(* A populated world that the host commands by id, with ids that name an
   entity and ids that name none.  A step call runs its schedule in the
   listed order. *)

InitCommands ==
    /\ \E c \in Configs :
        /\ sim = spawn_building(spawn_tree(SpawnAll(with_config(c), BattleSquads, 1),
                                           7, 40, 0), 8, 0, 60)
        /\ twin = with_config(c)
    /\ history = InitHistory

DestructibleIdsIn(w) == {w.destructibles[i].id : i \in DOMAIN w.destructibles}

\* the ids passed to the order calls: the squads' ids, a tree's id, an id
\* never used
OrderIdInputs == {1, 2, 3, 7, 99}

\* the ids passed to damage_destructible: the destructibles' ids, a squad's
\* id, an id never used
DamageIdInputs == {7, 8, 1, 99}

\* the history after a call with the given id: a call that names an entity
\* counts against the bound, one that names none is remembered by name
Called(name, id, known) ==
    IF id \in known THEN [history EXCEPT !.calls = @ + 1]
    ELSE [history EXCEPT !.missed = @ \cup {name}]

CommandMayCall(id, known) == Idle /\ (id \in known => history.calls < MaxCommandCalls)

OrderMoveById ==
    /\ \E id \in OrderIdInputs, t \in Targets :
        /\ CommandMayCall(id, IdsInUse(sim))
        /\ sim' = order_move(sim, id, t[1], t[2])
        /\ history' = Called("order_move", id, IdsInUse(sim))
    /\ UNCHANGED twin

OrderAttackMoveById ==
    /\ \E id \in OrderIdInputs, t \in Targets :
        /\ CommandMayCall(id, IdsInUse(sim))
        /\ sim' = order_attack_move(sim, id, t[1], t[2])
        /\ history' = Called("order_attack_move", id, IdsInUse(sim))
    /\ UNCHANGED twin

OrderHoldById ==
    /\ \E id \in OrderIdInputs :
        /\ CommandMayCall(id, IdsInUse(sim))
        /\ sim' = order_hold(sim, id)
        /\ history' = Called("order_hold", id, IdsInUse(sim))
    /\ UNCHANGED twin

OrderRetreatById ==
    /\ \E id \in OrderIdInputs :
        /\ CommandMayCall(id, IdsInUse(sim))
        /\ sim' = order_retreat(sim, id)
        /\ history' = Called("order_retreat", id, IdsInUse(sim))
    /\ UNCHANGED twin

DamageDestructibleById ==
    /\ \E id \in DamageIdInputs, damage \in DamageInputs :
        /\ CommandMayCall(id, DestructibleIdsIn(sim))
        /\ sim' = damage_destructible(sim, id, damage)
        /\ history' = Called("damage_destructible", id, DestructibleIdsIn(sim))
    /\ UNCHANGED twin

StepCommands ==
    /\ Idle
    /\ \E dt \in StepInputs :
        /\ sim.tick + UpdatesOf(sim, dt) <= MaxCommandTick
        /\ sim' = step_listed(sim, dt)
        /\ history' = [history EXCEPT !.sum_dt = @ + dt]
    /\ UNCHANGED twin

NextCommands ==
    \/ OrderMoveById \/ OrderAttackMoveById \/ OrderHoldById \/ OrderRetreatById
    \/ DamageDestructibleById \/ StepCommands

SpecCommands == InitCommands /\ [][NextCommands]_vars

-----------------------------------------------------------------------------
(* Worlds built with configurations the host chooses freely. *)

\* the configurations passed to with_config: the one used elsewhere, one
\* with a fixed timestep of 0, one with a negative fixed timestep, one with a
\* sector size of 0
ConfigInputs ==
    {Config(10000, 100, 250),
     Config(0, 100, 250),
     Config(-10000, 100, 250),
     [Config(10000, 100, 250) EXCEPT !.sector_size = 0]}

InitConfig ==
    /\ \E c \in ConfigInputs : sim = with_config(c) /\ twin = with_config(c)
    /\ history = InitHistory

SpawnConfig ==
    /\ Idle /\ Len(sim.squads) < MaxConfigSquads
    /\ \E q \in SquadInputs :
        sim' = spawn_ai_squad(sim, q.id, q.faction, q.x, q.y)
    /\ history' = [history EXCEPT !.calls = @ + 1]
    /\ UNCHANGED twin

StepConfig ==
    /\ Idle /\ sim.tick < MaxConfigTick
    /\ \E dt \in StepInputs :
        /\ history.sum_dt + dt <= MaxConfigTick * 10000
        /\ sim' = step(sim, dt)
        /\ history' = [history EXCEPT !.sum_dt = @ + dt]
    /\ UNCHANGED twin

\* schedule.run returns and the loop of step goes round again; the model
\* follows the loop for MaxConfigTick rounds
EndFixedUpdateConfig ==
    /\ sim.pc = "tick" /\ sim.ran = Systems
    /\ sim.tick < MaxConfigTick
    /\ sim' = end_fixed_update(sim)
    /\ UNCHANGED <<twin, history>>

NextConfig ==
    \/ SpawnConfig \/ StepConfig \/ ScheduleBattle \/ EndFixedUpdateConfig

SpecConfig == InitConfig /\ [][NextConfig]_vars

-----------------------------------------------------------------------------
(* Properties *)

\* system s runs in this step
RanNow(s) == sim.pc = "tick" /\ s \notin sim.ran /\ s \in sim'.ran

\* the number of times e occurs in the sequence s
Occurrences(s, e) == Cardinality({k \in DOMAIN s : s[k] = e})

\* two sequences hold the same elements the same number of times
SameElements(s, t) ==
    /\ Len(s) = Len(t)
    /\ \A e \in Range(s) \cup Range(t) : Occurrences(s, e) = Occurrences(t, e)

\* C1: two worlds built alike and given the same calls return equal snapshots
\* after every call, whatever permitted order the systems of sim ran in
\* (twin ran them in the listed order).
C1_SnapshotsAgree == Idle => snapshot(sim) = snapshot(twin)

\* C2: the accumulator is never negative; current_tick * f plus the
\* accumulator is the sum of all dt passed to step; a fixed update runs only
\* while a whole f is in the accumulator, and once a call has returned less
\* than f is left.
C2_Accumulator ==
    /\ sim.time_accumulator >= 0
    /\ sim.tick * sim.config.fixed_timestep + sim.time_accumulator = history.sum_dt
    /\ sim.pc = "tick" => sim.time_accumulator >= sim.config.fixed_timestep
    /\ Idle => sim.time_accumulator < sim.config.fixed_timestep

\* a call with too little accumulated time ran no fixed update, a call of one
\* timestep ran one, and the last call, of two timesteps, ran two
C2_Witness ==
    /\ Idle /\ sim.step_dt = 20000
    /\ sim.tick = 3 /\ sim.time_accumulator = 5000

\* C3: every squad's health stays within 0 and its maximum, and no step
\* increases it.
C3_HealthBounded ==
    /\ [](\A i \in DOMAIN sim.squads :
            sim.squads[i].health >= 0 /\ sim.squads[i].health <= sim.squads[i].health_max)
    /\ [][\A i \in DOMAIN sim.squads :
            sim'.squads[i].health <= sim.squads[i].health]_vars

\* combat has brought one squad to 0 and damaged another
C3_Witness ==
    /\ \E i \in DOMAIN sim.squads : sim.squads[i].health = 0
    /\ \E i \in DOMAIN sim.squads :
        sim.squads[i].health > 0 /\ sim.squads[i].health < sim.squads[i].health_max

\* a morale value within [0, 1]
InUnit(value) == value >= 0 /\ value <= SCALE

\* C4: every squad's morale lies within [0, 1] in every state, and so do the
\* value morale_system holds after its penalties and the value it ends with.
C4_MoraleBounded ==
    \A i \in DOMAIN sim.squads :
        /\ InUnit(sim.squads[i].morale)
        /\ InUnit(MoralePenalties(sim, sim.squads[i], HealthFraction(sim.squads[i])))
        /\ InUnit(MoraleFor(sim, sim.squads[i]))

\* penalties larger than the morale left have been applied to a squad, and
\* another squad is at full morale with recovery applied to it
C4_Witness ==
    /\ "morale_system" \in sim.ran
    /\ \E i \in DOMAIN sim.squads :
        /\ sim.squads[i].morale = 0
        /\ IsPinned(sim.squads[i].suppression)
        /\ HealthFraction(sim.squads[i]) < 750
    /\ \E i \in DOMAIN sim.squads : sim.squads[i].morale = SCALE

\* the squads that are alive
AliveSquads(w) == {i \in DOMAIN w.squads : is_alive(w.squads[i])}

\* the grid holds one entry for each alive squad, at its position and with
\* its faction code, and nothing else
GridMatchesAlive(w) ==
    /\ total_count(w.grid) = Cardinality(AliveSquads(w))
    /\ GridEntryCount(w.grid) = Cardinality(AliveSquads(w))
    /\ GridEntries(w.grid) =
          {[entity |-> w.squads[i].entity, x |-> w.squads[i].x, y |-> w.squads[i].y,
            faction |-> FactionCode(w.squads[i].faction)] : i \in AliveSquads(w)}

\* C5: when spatial_grid_update_system has just run, the grid holds exactly
\* one entry per alive squad and none for a dead one.
C5_GridHoldsAlive ==
    [][RanNow("spatial_grid_update_system") => GridMatchesAlive(sim')]_vars

\* the grid was rebuilt in this fixed update, since when no squad has moved
\* or been hit, with one squad dead and another alive
C5_Witness ==
    /\ sim.pc = "tick"
    /\ "spatial_grid_update_system" \in sim.ran
    /\ "movement_system" \notin sim.ran
    /\ \E i \in DOMAIN sim.squads : ~is_alive(sim.squads[i])
    /\ AliveSquads(sim) # {}
    /\ GridMatchesAlive(sim)

\* C6: when a fixed update has ended, every squad with morale below 0.2 has
\* the order Retreat.
C6_BrokenRetreat ==
    (sim.ran = {} /\ sim.tick >= 1) =>
        \A i \in DOMAIN sim.squads :
            MoraleIsBroken(sim.squads[i].morale) => sim.squads[i].order = Retreat

\* the cadence as stated: High on every n, Medium on even n, Low on every
\* fourth n
LodDue(lod, n) ==
    CASE lod = "High" -> TRUE
      [] lod = "Medium" -> n % 2 = 0
      [] lod = "Low" -> n % 4 = 0

\* a squad that combat lets fire when its LOD is due: alive, not pinned, not
\* broken, with an enemy in fire range
CouldFire(w, q) ==
    /\ is_alive(q) /\ ~IsPinned(q.suppression) /\ ~MoraleIsBroken(q.morale)
    /\ TargetOf(w, q) # None

\* C7: the systems of the n-th fixed update observe tick n; combat lets a
\* squad fire, and threat awareness scans for a squad, exactly when the
\* squad's LOD is due at n; a squad that is not due is skipped.
C7_LodCadence ==
    /\ [](sim.pc = "tick" => sim.SimTick = sim.tick + 1)
    /\ [][RanNow("combat_system") =>
            \A i \in DOMAIN sim.squads :
                (sim.squads[i].entity \in Range(sim'.fired))
                    <=> (CouldFire(sim, sim.squads[i])
                            /\ LodDue(sim.squads[i].lod, sim.SimTick))]_vars
    /\ [][RanNow("threat_awareness_system") =>
            \A i \in DOMAIN sim.squads :
                sim.squads[i].ai =>
                    IF LodDue(sim.squads[i].lod, sim.SimTick)
                    THEN sim'.squads[i].threat = ThreatFor(sim, sim.squads[i])
                         /\ sim'.squads[i].threat.time_since_fire
                              = sim.squads[i].threat.time_since_fire + sim.DeltaTime
                    ELSE sim'.squads[i].threat =
                            [sim.squads[i].threat EXCEPT !.time_since_fire =
                                @ + sim.DeltaTime * tick_interval(sim.squads[i].lod)]]_vars

\* in the fourth fixed update threat awareness has scanned for a Low squad
\* that it skipped in the three updates before (three times 4 dt, then dt),
\* and combat has run with a Medium squad among the squads
C7_Witness ==
    /\ sim.pc = "tick" /\ sim.SimTick = 4
    /\ "threat_awareness_system" \in sim.ran /\ "combat_system" \in sim.ran
    /\ \E i \in DOMAIN sim.squads :
        /\ sim.squads[i].ai /\ sim.squads[i].lod = "Low"
        /\ sim.squads[i].threat.time_since_fire = 13 * sim.DeltaTime
    /\ \E i \in DOMAIN sim.squads : sim.squads[i].lod = "Medium"

\* the entries of the grid within the radius of the last query
InRadius(g, q) == {e \in GridEntries(g) : DistSq(e, q[1], q[2]) <= q[3] * q[3]}

\* C8: the Vec returned by query_radius holds the entries within the radius,
\* each as often as the grid holds it, in ascending squared distance, entries
\* at equal distance in ascending entity identifier.
C8_QueryOrdered ==
    sim.query # <<>> =>
        /\ Range(sim.results) = InRadius(sim.grid, sim.query)
        /\ \A i, j \in DOMAIN sim.results :
            i < j =>
                \/ DistSq(sim.results[i], sim.query[1], sim.query[2])
                     < DistSq(sim.results[j], sim.query[1], sim.query[2])
                \/ /\ DistSq(sim.results[i], sim.query[1], sim.query[2])
                        = DistSq(sim.results[j], sim.query[1], sim.query[2])
                   /\ sim.results[i].entity <= sim.results[j].entity

\* C9: the craters a snapshot call would report are those spawned since the
\* last snapshot call; a snapshot call leaves none to report and the dirty
\* flag reset, so a crater is reported by the first snapshot after it and by
\* no other.
C9_CratersReportedOnce ==
    /\ [](Idle => SameElements(snapshot(sim).new_craters, history.since))
    /\ [](Idle /\ history.snaps > 0 /\ history.since = <<>> =>
            snapshot(sim).new_craters = <<>> /\ ~snapshot(sim).terrain_dirty)
    /\ [][history'.snaps # history.snaps =>
            /\ snapshot(sim').new_craters = <<>>
            /\ ~snapshot(sim').terrain_dirty]_vars

\* craters were spawned, a snapshot reported them, and a second snapshot has
\* been taken with no crater command in between
C9_Witness ==
    /\ Idle /\ history.snaps = 2
    /\ Len(sim.terrain.craters) = 2
    /\ sim.new_craters = <<>> /\ ~sim.terrain_dirty

\* everything a world holds but the new-crater buffer and the dirty flag
Core(w) == [w EXCEPT !.new_craters = <<>>, !.terrain_dirty = FALSE]

\* C10: a snapshot call changes nothing of the world but the new-crater
\* buffer and the dirty flag, the snapshot taken right after it differs from
\* it in those two fields at most, and a run with snapshot calls (sim) stays
\* equal in everything else to the same run without them (twin).
C10_SnapshotReadsOnly ==
    /\ [](Core(sim) = Core(twin))
    /\ [][history'.snaps # history.snaps =>
            /\ Core(sim') = Core(sim)
            /\ from_world(sim', sim'.tick, sim'.time)
                   = from_world(sim, sim.tick, sim.time)]_vars

\* a snapshot call emptied the buffer of sim before the step (twin still
\* holds the crater), and the fixed update has since run on a world with a
\* squad
C10_Witness ==
    /\ Idle /\ history.snaps >= 1 /\ history.snap_tick = 0 /\ sim.tick = 1
    /\ sim.squads # <<>>
    /\ sim.new_craters # twin.new_craters

\* the squad ids a snapshot lists, in snapshot order
SnapshotIds(w) == [k \in 1..Len(snapshot(w).squads) |-> snapshot(w).squads[k].id]

\* C11: a snapshot lists every squad ever spawned, dead squads included, so
\* the squad count is the number spawned (a mass spawn of n adds n and
\* returns n), and no step lowers the count.
C11_SquadsKept ==
    /\ [](/\ SameElements(SnapshotIds(sim), history.spawned)
          /\ Len(snapshot(sim).squads) = history.returned)
    /\ [][Len(snapshot(sim').squads) >= Len(snapshot(sim).squads)]_vars

\* two fixed updates after three squads were mass spawned, one of them dead
C11_Witness ==
    /\ Idle /\ sim.tick = 2
    /\ history.returned = 3 /\ Len(snapshot(sim).squads) = 3
    /\ \E k \in 1..3 : snapshot(sim).squads[k].health = 0

\* how far along Intact -> Damaged -> Destroyed a state is
StateRank(state) ==
    CASE state = "Intact" -> 0 [] state = "Damaged" -> 1 [] state = "Destroyed" -> 2

\* C12: a destructible's state only moves forward along Intact -> Damaged ->
\* Destroyed, whatever damage_destructible, spawn_crater and step calls are
\* made.
C12_LifecycleOneWay ==
    [][\A i \in DOMAIN sim.destructibles :
          StateRank(sim'.destructibles[i].state) >= StateRank(sim.destructibles[i].state)]_vars

\* C13: an order call or damage_destructible call whose id names no entity
\* leaves the whole world as it was.
C13_NotFoundNoOp ==
    /\ [][history'.missed # history.missed => sim' = sim]_vars
    /\ [](Idle =>
          /\ \A id \in OrderIdInputs \ IdsInUse(sim) :
                /\ \A t \in Targets : /\ order_move(sim, id, t[1], t[2]) = sim
                                       /\ order_attack_move(sim, id, t[1], t[2]) = sim
                /\ order_hold(sim, id) = sim
                /\ order_retreat(sim, id) = sim
          /\ \A id \in DamageIdInputs \ DestructibleIdsIn(sim) :
                \A damage \in DamageInputs : damage_destructible(sim, id, damage) = sim)

\* each of the five calls was made with an id that names no entity, on a
\* stepped world where a squad has been given an order and a destructible
\* has been damaged
C13_Witness ==
    /\ history.missed = {"order_move", "order_attack_move", "order_hold",
                         "order_retreat", "damage_destructible"}
    /\ sim.tick = 1
    /\ \E i \in DOMAIN sim.squads : ~sim.squads[i].ai /\ sim.squads[i].order # Hold
    /\ \E i \in DOMAIN sim.destructibles :
          sim.destructibles[i].health < sim.destructibles[i].health_max

\* C14: no world exists whose fixed timestep or sector size is not positive:
\* construction with such a configuration is rejected.
C14_InvalidConfigRejected ==
    sim.config.fixed_timestep > 0 /\ sim.config.sector_size > 0

\* C15: current_tick, current_time, the age of every crater of the terrain
\* list and every squad's last_damage_tick never decrease, whatever host
\* commands and step(dt) calls are made.
C15_Monotone ==
    [][/\ sim'.tick >= sim.tick
       /\ sim'.time >= sim.time
       /\ \A i \in DOMAIN sim.terrain.craters :
             sim'.terrain.craters[i].age >= sim.terrain.craters[i].age
       /\ \A i \in DOMAIN sim.squads :
             sim'.squads[i].flags.last_damage_tick >= sim.squads[i].flags.last_damage_tick]_vars

\* floor(a / size) for size > 0: the integer k with k * size <= a < (k + 1) * size
FloorOf(a, size) == CHOOSE k \in -100..100 : k * size <= a /\ a < (k + 1) * size

\* the squad's sector id is the floor of its position over the sector size
InOwnSector(w, q) ==
    q.sector = <<FloorOf(q.x, w.config.sector_size), FloorOf(q.y, w.config.sector_size)>>

\* C16: right after sector_assignment_system runs, every squad's sector id is
\* (floor(x / sector_size), floor(y / sector_size)) of its position then,
\* negative coordinates included; a spawned squad has it before any step.
C16_SectorOfPosition ==
    /\ [][RanNow("sector_assignment_system") =>
            \A i \in DOMAIN sim'.squads : InOwnSector(sim', sim'.squads[i])]_vars
    /\ [](history.sum_dt = 0 => \A i \in DOMAIN sim.squads : InOwnSector(sim, sim.squads[i]))

\* a squad spawned in sector (0, 0) has marched to negative coordinates and
\* sector assignment has put it in sector (-1, -1)
C16_Witness ==
    /\ sim.pc = "tick" /\ "sector_assignment_system" \in sim.ran
    /\ \A i \in DOMAIN sim.squads : InOwnSector(sim, sim.squads[i])
    /\ \E i \in DOMAIN sim.squads :
          /\ sim.squads[i].squad_id = 1
          /\ MarchSquads[i].x > 0 /\ MarchSquads[i].y > 0
          /\ sim.squads[i].x < 0 /\ sim.squads[i].y < 0
          /\ sim.squads[i].sector = <<-1, -1>>

\* the cells either terrain has written
TouchedCells(t, u) == (DOMAIN t.cells) \cup (DOMAIN u.cells)

\* from terrain t to terrain u no height rose and no damage fell
TerrainMonotone(t, u) ==
    \A k \in TouchedCells(t, u) :
        /\ F32Le(get_cell(u, k[1], k[2]).height, get_cell(t, k[1], k[2]).height)
        /\ F32Le(get_cell(t, k[1], k[2]).damage, get_cell(u, k[1], k[2]).damage)

\* from terrain t to terrain u one crater c was applied: one record appended,
\* and no cell whose centre is farther than the radius from the impact changed
OneCraterApplied(t, u, c) ==
    /\ u.craters = Append(t.craters, c)
    /\ c.age = 0
    /\ \A k \in TouchedCells(t, u) :
          get_cell(u, k[1], k[2]) # get_cell(t, k[1], k[2])
              => CellDist(u, k[1], k[2], c.x, c.y) <= c.radius

\* crater c is the crater terrain t received last
SameAsLast(t, c) ==
    /\ t.craters # <<>>
    /\ [t.craters[Len(t.craters)] EXCEPT !.age = 0] = c

\* from terrain t to terrain u some cell sank and gathered damage
Deepened(t, u) ==
    \E k \in TouchedCells(t, u) :
        /\ get_cell(u, k[1], k[2]).height < get_cell(t, k[1], k[2]).height
        /\ get_cell(u, k[1], k[2]).damage > get_cell(t, k[1], k[2]).damage

\* C17: every apply_crater with depth >= 0 leaves each cell's height <= its
\* height before and each cell's damage >= its damage before, changes no cell
\* farther than the radius from the impact and appends exactly one crater
\* record (a barrage of n craters appends n); the same crater applied again
\* lowers height and raises damage again.
C17_CratersStack ==
    [][Len(sim'.terrain.craters) > Len(sim.terrain.craters) =>
        /\ TerrainMonotone(sim.terrain, sim'.terrain)
        /\ Len(sim'.terrain.craters) = Len(sim.terrain.craters) + 1 =>
              LET c == sim'.terrain.craters[Len(sim'.terrain.craters)]
              IN /\ OneCraterApplied(sim.terrain, sim'.terrain, c)
                 /\ SameAsLast(sim.terrain, c) /\ c.depth > 0
                       => Deepened(sim.terrain, sim'.terrain)]_vars

\* the square of the distance of squad q to the target of its order
TargetDistSq(q) == (q.order.x - q.x) * (q.order.x - q.x) + (q.order.y - q.y) * (q.order.y - q.y)

\* squad q is under a move order whose target is 1 unit away or more
Marching(q) == q.order.kind = "MoveTo" /\ TargetDistSq(q) >= POS * POS

\* squad q is under a move order, within 1 unit of its target, and at rest
AtRest(q) ==
    /\ q.order.kind = "MoveTo" /\ TargetDistSq(q) < POS * POS
    /\ q.vx = 0 /\ q.vy = 0

Unsteady(q) == IsPinned(q.suppression) \/ MoraleIsBroken(q.morale)

\* C18: with the default speed and the default timestep, a squad under a move
\* order to a target 1 unit away or more is strictly closer to the target
\* after the movement of every fixed update in which it is neither pinned nor
\* broken; it moves at no other time and not at all once it is within 1 unit
\* of the target; and unless it gets pinned or broken it eventually is within
\* 1 unit of the target with zero velocity, and stays so.
C18_MoveOrderProgress ==
    /\ [][\A i \in DOMAIN sim.squads :
            /\ RanNow("movement_system") /\ Marching(sim.squads[i])
                  /\ ~Unsteady(sim.squads[i])
                  => /\ sim'.squads[i].order = sim.squads[i].order
                     /\ TargetDistSq(sim'.squads[i]) < TargetDistSq(sim.squads[i])
            /\ ~RanNow("movement_system")
                  => sim'.squads[i].x = sim.squads[i].x /\ sim'.squads[i].y = sim.squads[i].y
            /\ sim.squads[i].order.kind = "MoveTo" /\ ~Marching(sim.squads[i])
                  => sim'.squads[i].x = sim.squads[i].x /\ sim'.squads[i].y = sim.squads[i].y]_vars
    /\ \A i \in DOMAIN MarchSquads :
          [](sim.squads[i].order.kind = "MoveTo"
                => <>(Unsteady(sim.squads[i]) \/ [](AtRest(sim.squads[i]))))

\* both orders were given and both squads have come to rest within 1 unit of
\* targets they were more than 1 unit away from
C18_Witness ==
    /\ Idle /\ history.orders = 2
    /\ \A i \in 1..2 :
          /\ AtRest(sim.squads[i])
          /\ sim.squads[i].x # MarchSquads[i].x
    /\ \E i \in 1..2 : sim.squads[i].y # MarchSquads[i].y

\* buffer[k], offsets counted from 0
At(buffer, k) == buffer[k + 1]

\* the order_type of an order of the world
OrderTypeOf(order) ==
    CASE order.kind = "Hold" -> 0
      [] order.kind = "MoveTo" -> 1
      [] order.kind = "AttackMove" -> 2
      [] order.kind = "Retreat" -> 3

\* the 14 floats at offset base of buffer describe squad q of the world, whose
\* snapshot entry is e
LaidOut(buffer, base, q, e) ==
    /\ At(buffer, base) = e.id /\ e.id = q.squad_id
    /\ At(buffer, base + 1) = e.x /\ At(buffer, base + 2) = e.y
    /\ At(buffer, base + 3) = e.vx /\ At(buffer, base + 4) = e.vy
    /\ At(buffer, base + 5) = (IF e.faction = "Red" THEN 1 ELSE 0)
    /\ At(buffer, base + 6) = e.size
    /\ At(buffer, base + 7) = e.health /\ At(buffer, base + 8) = e.health_max
    /\ At(buffer, base + 9) = e.morale /\ At(buffer, base + 10) = e.suppression
    /\ At(buffer, base + 11) \in {0, 1}
    /\ At(buffer, base + 11) = 1 <=> e.health > 0
    /\ At(buffer, base + 12) \in {0, 1}
    /\ At(buffer, base + 12) = 1 <=> q.order.kind = "Retreat"
    /\ At(buffer, base + 12) = 1 <=> At(buffer, base + 13) = 3
    /\ At(buffer, base + 13) = OrderTypeOf(q.order)

\* C19: the buffer snapshot_to_flatbuffer builds from a snapshot has length
\* 1 + 14 * squad_count and squad_count at offset 0; squad i of the snapshot
\* occupies offsets 1 + 14 i to 14 + 14 i; is_alive is 1 iff health > 0,
\* is_routing is 1 iff the order is Retreat iff order_type is 3, and
\* order_type is 0, 1, 2, 3 for Hold, MoveTo, AttackMove, Retreat.
C19_FlatLayout ==
    Idle =>
      LET snap == snapshot(sim)
          buffer == snapshot_to_flatbuffer(snap)
          squad_count == Len(snap.squads)
      IN /\ Len(buffer) = 1 + 14 * squad_count
         /\ At(buffer, 0) = squad_count
         /\ \A i \in 0..(squad_count - 1) :
               LaidOut(buffer, 1 + 14 * i,
                       sim.squads[QueryOrder(sim.squads)[i + 1]], snap.squads[i + 1])

\* after two fixed updates the buffer of three squads lists a dead squad
\* (is_alive 0), a squad under a move order (order_type 1) and a retreating
\* squad (is_routing 1, order_type 3)
C19_Witness ==
    /\ Idle /\ sim.tick = 2
    /\ Len(snapshot_to_flatbuffer(snapshot(sim))) = 43
    /\ \E i, j, k \in 0..2 :
          /\ At(snapshot_to_flatbuffer(snapshot(sim)), 1 + 14 * i + 11) = 0
          /\ At(snapshot_to_flatbuffer(snapshot(sim)), 1 + 14 * j + 13) = 1
          /\ At(snapshot_to_flatbuffer(snapshot(sim)), 1 + 14 * k + 12) = 1
          /\ At(snapshot_to_flatbuffer(snapshot(sim)), 1 + 14 * k + 13) = 3

\* the group with_config adds a system in (the five add_systems calls)
GroupOf(s) ==
    CASE s \in {"spatial_grid_update_system", "lod_assignment_system",
                "sector_assignment_system", "activity_flags_system"} -> 1
      [] s \in {"threat_awareness_system", "nearby_friendlies_system",
                "behavior_state_system"} -> 2
      [] s \in {"ai_order_system", "flocking_system"} -> 3
      [] s \in {"order_system", "movement_system", "combat_system",
                "suppression_decay_system", "morale_system", "rout_system"} -> 4
      [] s \in {"terrain_damage_to_destructibles_system",
                "destruction_state_system"} -> 5

\* C20: in every fixed update a system starts only when every system of the
\* groups before its own has finished (Spatial/LOD, AI awareness, AI
\* decisions, Core, Environment); in particular ai_order_system and
\* flocking_system run after threat_awareness_system and
\* nearby_friendlies_system and before order_system.
C20_GroupOrder ==
    [][\A s \in Systems :
          RanNow(s) => \A t \in Systems : GroupOf(t) < GroupOf(s) => t \in sim.ran]_vars

\* the threat awareness of this fixed update for squad i: the value
\* threat_awareness_system has written, or will write, in this schedule run
ThreatOfTick(w, i) ==
    IF "threat_awareness_system" \in w.ran THEN w.squads[i].threat
    ELSE threat_awareness_system(w).squads[i].threat

\* C21: in every fixed update threat_awareness_system has completed when
\* behavior_state_system starts, and the behaviour state of every AI squad is
\* computed from the threat awareness of that fixed update.
C21_ThreatBeforeBehavior ==
    [][RanNow("behavior_state_system") =>
        /\ "threat_awareness_system" \in sim.ran
        /\ \A i \in DOMAIN sim.squads :
              sim.squads[i].ai =>
                sim'.squads[i].behavior_state =
                    determine_behavior_state(sim.squads[i].order, ThreatOfTick(sim, i),
                                             DefaultPreferences,
                                             sim.squads[i].suppression,
                                             sim.squads[i].morale)]_vars

\* the Core systems and then the Environment systems, in the order the
\* claim gives
CoreThenEnvironment ==
    <<"order_system", "movement_system", "combat_system",
      "suppression_decay_system", "morale_system", "rout_system",
      "terrain_damage_to_destructibles_system", "destruction_state_system">>

\* C22: in every fixed update the eight systems order, movement, combat,
\* suppression decay, morale, rout, terrain damage to destructibles and
\* destruction state run one at a time in exactly this order: when one of
\* them runs, all before it in the list have run and none after it has.
C22_CoreChain ==
    [][/\ Cardinality(sim'.ran \ sim.ran) <= 1
       /\ \A k \in DOMAIN CoreThenEnvironment :
            RanNow(CoreThenEnvironment[k]) =>
                \A j \in DOMAIN CoreThenEnvironment :
                    /\ j < k => CoreThenEnvironment[j] \in sim.ran
                    /\ j > k => CoreThenEnvironment[j] \notin sim.ran]_vars

\* the second fixed update has run all eight systems, after a first in which
\* combat did damage
C22_Witness ==
    /\ sim.pc = "tick" /\ sim.tick = 1
    /\ Range(CoreThenEnvironment) \subseteq sim.ran
    /\ \E i \in DOMAIN sim.squads : sim.squads[i].health < sim.squads[i].health_max

-----------------------------------------------------------------------------
(* combat.rs: gather then apply *)

Opposing(p, q) == p.faction # q.faction

\* both squads pass the attacker filter and stand within fire_range of each other
EligiblePair(w, i, j) ==
    /\ Opposing(w.squads[i], w.squads[j])
    /\ IsAttacker(w.squads[i], w.SimTick)
    /\ IsAttacker(w.squads[j], w.SimTick)
    /\ Dist(w.squads[i].x - w.squads[j].x, w.squads[i].y - w.squads[j].y)
           <= DefaultFireRange

\* squad i passes the attacker filter and its chosen target is squad j, nearer
\* than fire_range
FiresAt(w, i, j) ==
    /\ IsAttacker(w.squads[i], w.SimTick)
    /\ Bind(TargetOf(w, w.squads[i]),
            LAMBDA t : t # None /\ t[1] = w.squads[j].entity /\ t[2] < DefaultFireRange)

LosesHealth(i) == sim'.squads[i].health < sim.squads[i].health
GainsSuppression(i) == sim'.squads[i].suppression > sim.squads[i].suppression

\* C23 as stated: in one run of combat_system, any two opposing eligible squads
\* within fire_range of each other both lose health and both gain suppression.
C23_EligiblePairsBothHit ==
    [][RanNow("combat_system") =>
        \A i, j \in DOMAIN sim.squads :
            EligiblePair(sim, i, j) =>
                /\ LosesHealth(i) /\ GainsSuppression(i)
                /\ LosesHealth(j) /\ GainsSuppression(j)]_vars

\* C23 amended: in one run of combat_system every squad that passes the attacker
\* filter on the values held before the run, and whose nearest enemy in the grid
\* is nearer than fire_range, is marked as firing and its target loses health and
\* gains suppression in that run, whatever that run's fire does to the attacker.
C23_GatherThenApply ==
    [][RanNow("combat_system") =>
        \A i, j \in DOMAIN sim.squads :
            FiresAt(sim, i, j) =>
                /\ LosesHealth(j) /\ GainsSuppression(j)
                /\ sim'.squads[i].flags.is_firing
                /\ \E k \in DOMAIN sim'.fired : sim'.fired[k] = sim.squads[i].entity]_vars

\* combat has run and a squad it pinned or killed in this tick has itself fired
C23_Witness ==
    /\ sim.pc = "tick" /\ "combat_system" \in sim.ran
    /\ "suppression_decay_system" \notin sim.ran
    /\ \E i \in DOMAIN sim.squads :
          /\ \E k \in DOMAIN sim.fired : sim.fired[k] = sim.squads[i].entity
          /\ sim.squads[i].flags.last_damage_tick = sim.SimTick
          /\ (sim.squads[i].health = 0 \/ IsPinned(sim.squads[i].suppression))

-----------------------------------------------------------------------------
(* combat.rs: attacker eligibility *)

\* the squad is dead, pinned, broken or not scheduled by its LOD on this tick
Ineligible(q, current_tick) ==
    \/ q.health <= 0
    \/ IsPinned(q.suppression)
    \/ MoraleIsBroken(q.morale)
    \/ ~should_update(q.lod, current_tick)

HasFired(w, q) == \E k \in DOMAIN w.fired : w.fired[k] = q.entity

\* C24: in one run of combat_system a squad that is dead, pinned, broken or
\* not scheduled by its LOD is not added to the fired set; a squad's health or
\* suppression changes only if an eligible squad has it as its target; and a
\* dead squad's health and suppression are left as they were.
C24_AttackerEligibility ==
    [][RanNow("combat_system") =>
        \A j \in DOMAIN sim.squads :
            /\ Ineligible(sim.squads[j], sim.SimTick) => ~HasFired(sim', sim.squads[j])
            /\ (\/ sim'.squads[j].health # sim.squads[j].health
                \/ sim'.squads[j].suppression # sim.squads[j].suppression)
                 => \E i \in DOMAIN sim.squads :
                        /\ ~Ineligible(sim.squads[i], sim.SimTick)
                        /\ Bind(TargetOf(sim, sim.squads[i]),
                                LAMBDA t : t # None /\ t[1] = sim.squads[j].entity)
            /\ sim.squads[j].health <= 0 =>
                    /\ sim'.squads[j].health = sim.squads[j].health
                    /\ sim'.squads[j].suppression = sim.squads[j].suppression
                    /\ \A i \in DOMAIN sim.squads :
                          Bind(TargetOf(sim, sim.squads[i]),
                               LAMBDA t : t = None \/ t[1] # sim.squads[j].entity)]_vars

\* combat has run in a tick in which a broken squad with an enemy in range was
\* fired upon and did not fire, while its enemies did
C24_Witness ==
    /\ sim.pc = "tick" /\ "combat_system" \in sim.ran /\ "morale_system" \notin sim.ran
    /\ \E i \in DOMAIN sim.squads :
          /\ MoraleIsBroken(sim.squads[i].morale)
          /\ sim.squads[i].flags.last_damage_tick = sim.SimTick
          /\ TargetOf(sim, sim.squads[i]) # None
          /\ ~HasFired(sim, sim.squads[i])
    /\ sim.fired # <<>>

-----------------------------------------------------------------------------
(* combat.rs: target selection *)

\* the enemies of q the grid holds within fire_range of q
EnemiesInRange(w, q) ==
    {e \in GridEntries(w.grid) :
        /\ e.faction # FactionCode(q.faction)
        /\ Dist(e.x - q.x, e.y - q.y) <= DefaultFireRange}

\* the nearest of them, and of several nearest the one of the lowest entity
Nearest(w, q) ==
    {e \in EnemiesInRange(w, q) :
        \A f \in EnemiesInRange(w, q) :
            Bind(<<Dist(e.x - q.x, e.y - q.y), Dist(f.x - q.x, f.y - q.y)>>,
                 LAMBDA d : d[1] < d[2] \/ (d[1] = d[2] /\ e.entity <= f.entity))}

\* C25: in every run of combat_system each squad that passes the attacker
\* filter and has an enemy in the grid within fire_range fires at the nearest
\* such enemy, and at the one of the lowest entity identifier when several are
\* nearest; a squad with no enemy in range does not fire.
C25_TargetSelection ==
    [][RanNow("combat_system") =>
        \A i \in DOMAIN sim.squads :
            IsAttacker(sim.squads[i], sim.SimTick) =>
                IF EnemiesInRange(sim, sim.squads[i]) = {}
                THEN ~HasFired(sim', sim.squads[i])
                ELSE /\ HasFired(sim', sim.squads[i])
                     /\ \E e \in Nearest(sim, sim.squads[i]) :
                           TargetOf(sim, sim.squads[i])[1] = e.entity]_vars

-----------------------------------------------------------------------------
(* combat.rs: split and monolithic combat *)

\* the split systems have left every squad as combat_system leaves it
SameAsCombatSystem ==
    \A i \in DOMAIN sim.squads :
        /\ sim.squads[i].health = twin.squads[i].health
        /\ sim.squads[i].suppression = twin.squads[i].suppression
        /\ sim.squads[i].last_damage_tick = twin.squads[i].last_damage_tick
        /\ sim.squads[i].is_firing = twin.squads[i].is_firing

\* one partial result per attacker, merged in the attackers' query order
OnePerAttackerInOrder ==
    /\ \A k \in DOMAIN sim.partials : Len(sim.partials[k].fired) = 1
    /\ sim.pending.fired = [n \in DOMAIN sim.volley |-> sim.volley[n].attacker]

\* C26 as stated: whatever the partition of the attackers into partial results
\* and the order of the merges, gather then apply leaves every squad's health,
\* suppression, last_damage_tick and is_firing as combat_system leaves them.
C26_SplitEqualsMonolithic == sim.pc = "done" => SameAsCombatSystem

\* C26 amended: with one partial result per attacker, merged in the attackers'
\* query order, gather then apply leaves health, suppression, last_damage_tick
\* and is_firing as combat_system leaves them; for every partition and merge
\* order last_damage_tick and is_firing are as combat_system leaves them, and
\* so are health and suppression of a squad with at most two attackers.
C26_SplitEqualsInOrder ==
    sim.pc = "done" =>
        /\ OnePerAttackerInOrder => SameAsCombatSystem
        /\ \A i \in DOMAIN sim.squads :
              /\ sim.squads[i].last_damage_tick = twin.squads[i].last_damage_tick
              /\ sim.squads[i].is_firing = twin.squads[i].is_firing
              /\ Cardinality({n \in DOMAIN sim.volley :
                                  sim.volley[n].target = sim.squads[i].entity}) <= 2
                   => /\ sim.squads[i].health = twin.squads[i].health
                      /\ sim.squads[i].suppression = twin.squads[i].suppression

\* three attackers of one target, their results merged one by one in query
\* order and applied
C26_Witness ==
    /\ sim.pc = "done" /\ OnePerAttackerInOrder
    /\ \E i \in DOMAIN sim.squads :
          /\ Cardinality({n \in DOMAIN sim.volley :
                              sim.volley[n].target = sim.squads[i].entity}) = 3
          /\ F32Less(sim.squads[i].health, <<13107200, -17>>)
          /\ F32Less(F32Zero, sim.squads[i].suppression)

-----------------------------------------------------------------------------
(* terrain damage events *)

\* the step that ends a fixed update
FixedUpdateEnds == sim.pc = "tick" /\ sim.ran = Systems /\ sim' # sim

\* C27: every terrain damage event is removed by the end of the fixed update
\* that processed it: when a fixed update ends no event is left for the next
\* run of terrain_damage_to_destructibles_system, and the terrain_damage list
\* of a snapshot taken from then on does not hold it.
C27_EventsConsumed ==
    [][FixedUpdateEnds =>
            /\ sim'.events = <<>>
            /\ snapshot(sim').terrain_damage = <<>>]_vars

-----------------------------------------------------------------------------
(* terrain in the systems *)

\* the world with its terrain inserted as the TerrainResource the systems read
WithTerrain(w) == [w EXCEPT !.terrain_resource = TRUE]

\* C28: every run of movement_system moves each squad by its velocity scaled
\* with the movement multiplier of the terrain at its position, and every run
\* of combat_system reduces damage and suppression by the cover of the terrain
\* at the target's position.
C28_TerrainInEffect ==
    [][/\ RanNow("movement_system") =>
            \A i \in DOMAIN sim.squads :
                <<sim'.squads[i].x, sim'.squads[i].y>>
                    = MovedPosition(WithTerrain(sim), sim.squads[i])
       /\ RanNow("combat_system") =>
            \A i \in DOMAIN sim.squads :
                /\ sim'.squads[i].health = combat_system(WithTerrain(sim)).squads[i].health
                /\ sim'.squads[i].suppression
                      = combat_system(WithTerrain(sim)).squads[i].suppression]_vars

-----------------------------------------------------------------------------
(* Pinned and broken squads stand still *)

PinnedOrBroken(q) == IsPinned(q.suppression) \/ MoraleIsBroken(q.morale)

\* the systems that write Suppression or Morale
WritesSuppressionOrMorale ==
    {"combat_system", "suppression_decay_system", "morale_system", "rout_system"}

\* C29: a squad that is pinned or broken at the start of a fixed update has
\* its velocity set to zero by order_system and keeps its position through
\* the fixed update, whatever its order and whether or not the AI controls
\* it: no system that runs before combat_system alters suppression or
\* morale, so the squad is still pinned or broken when order_system and
\* movement_system run; order_system zeroes its velocity; movement_system
\* leaves it in place; and no other system moves any squad.
C29_PinnedOrBrokenStandStill ==
    [][\A s \in Systems : RanNow(s) =>
         \A i \in DOMAIN sim.squads :
            /\ s \notin WritesSuppressionOrMorale =>
                  /\ sim'.squads[i].suppression = sim.squads[i].suppression
                  /\ sim'.squads[i].morale = sim.squads[i].morale
            /\ (s = "order_system" /\ PinnedOrBroken(sim.squads[i])) =>
                  /\ sim'.squads[i].vx = 0
                  /\ sim'.squads[i].vy = 0
            /\ (s # "movement_system" \/ PinnedOrBroken(sim.squads[i])) =>
                  /\ sim'.squads[i].x = sim.squads[i].x
                  /\ sim'.squads[i].y = sim.squads[i].y]_vars

\* movement_system has just run over a living squad that moved in an earlier
\* fixed update, is now pinned or broken, and is under an order to move to a
\* place it has not reached
C29_Witness ==
    /\ sim.pc = "tick"
    /\ "movement_system" \in sim.ran /\ "combat_system" \notin sim.ran
    /\ \E i \in DOMAIN sim.squads :
        /\ is_alive(sim.squads[i])
        /\ PinnedOrBroken(sim.squads[i])
        /\ sim.squads[i].order.kind \in {"MoveTo", "AttackMove"}
        /\ Dist(sim.squads[i].order.x - sim.squads[i].x,
                sim.squads[i].order.y - sim.squads[i].y) >= 10
        /\ sim.squads[i].x # SkirmishSquads(FALSE)[i].x
        /\ sim.squads[i].vx = 0 /\ sim.squads[i].vy = 0

-----------------------------------------------------------------------------
(* Suppression decays *)

CeasefireSquadIndices == 1 .. Len(SkirmishSquads(FALSE))

\* combat_system runs and adds suppression to squad i
ComesUnderFire(i) ==
    /\ RanNow("combat_system")
    /\ sim'.squads[i].suppression > sim.squads[i].suppression

\* C30: suppression_decay_system runs after combat_system in every fixed
\* update and lowers each squad's suppression by 0.15 * dt, floored at 0;
\* suppression is never negative; and a squad that from some point on comes
\* under no further fire has its suppression reach 0 and stay 0, so that a
\* pinned squad no longer fired upon stops being pinned.
C30_SuppressionDecays ==
    /\ [][RanNow("suppression_decay_system") =>
            /\ "combat_system" \in sim.ran
            /\ \A i \in DOMAIN sim.squads :
                 sim'.squads[i].suppression =
                    IF sim.squads[i].suppression * SCALE >= 150 * sim.DeltaTime
                    THEN sim.squads[i].suppression - (150 * sim.DeltaTime) \div SCALE
                    ELSE 0]_vars
    /\ [](\A i \in DOMAIN sim.squads : sim.squads[i].suppression >= 0)
    /\ \A i \in CeasefireSquadIndices :
         <>[][~ComesUnderFire(i)]_vars => <>[](sim.squads[i].suppression = 0)

\* a living squad that came under fire, was since left alone for at least
\* one whole fixed update, and whose suppression has decayed to 0
C30_Witness ==
    /\ Idle
    /\ \E i \in DOMAIN sim.squads :
        /\ is_alive(sim.squads[i])
        /\ sim.squads[i].flags.last_damage_tick >= 1
        /\ sim.squads[i].flags.last_damage_tick < sim.tick
        /\ sim.squads[i].health < 6000
        /\ sim.squads[i].suppression = 0

-----------------------------------------------------------------------------
(* time_since_fire and the LOD schedule *)

\* C31: in every fixed update threat_awareness_system advances the
\* time_since_fire of each AI squad by exactly dt, the simulation time the
\* fixed update covers, whether the squad is High, Medium or Low and whether
\* the tick is a processed or a skipped one for it, so that after n fixed
\* updates it has advanced by n * dt.
C31_TimeSinceFireTracksTime ==
    [][RanNow("threat_awareness_system") =>
         \A i \in DOMAIN sim.squads :
            sim.squads[i].ai =>
                sim'.squads[i].threat.time_since_fire =
                    sim.squads[i].threat.time_since_fire + sim.DeltaTime]_vars

-----------------------------------------------------------------------------
(* Behaviour state as a priority lookup *)

\* the rules of the behaviour state in their order of priority, each a
\* condition on the squad's components and the state it yields
BehaviorRules(q) ==
    <<<<q.morale < 200, "Retreating">>,
      <<q.suppression >= 1000, "TakingCover">>,
      <<q.threat.threat_level > 700 /\ q.prefs.aggression < 500, "TakingCover">>,
      <<q.threat.time_since_fire < 2000 /\ q.prefs.cover_seeking > 500
            /\ q.suppression >= 500, "TakingCover">>,
      <<q.order.kind = "Retreat", "Retreating">>,
      <<q.threat.enemies_in_range > 0 /\ q.prefs.flanking_tendency > 600
            /\ q.threat.enemies_in_range <= 2, "Flanking">>,
      <<q.threat.enemies_in_range > 0, "Engaging">>,
      <<q.order.kind \in {"MoveTo", "AttackMove"}, "Advancing">>,
      <<TRUE, "Idle">>>>

FirstMatching(rules) ==
    rules[CHOOSE k \in DOMAIN rules :
            rules[k][1] /\ \A j \in 1 .. (k - 1) : ~rules[j][1]][2]

\* C32: behavior_state_system leaves each AI squad in the state of the
\* first rule, in the order of priority, that matches the squad's current
\* morale, suppression, threat awareness, preferences and order; the state
\* the squad was in before has no part in it.
C32_PriorityLookup ==
    [][sim.pc = "query" => sim'.state = FirstMatching(BehaviorRules(sim))]_vars

\* a squad that was Regrouping, is suppressed and under fire with a liking
\* for cover, and under a Retreat order, has been put in TakingCover
C32_Witness ==
    /\ sim.pc = "done" /\ sim.previous = "Regrouping"
    /\ sim.order = Retreat /\ sim.morale >= 200 /\ sim.suppression = 500
    /\ sim.threat.time_since_fire < 2000 /\ sim.prefs.cover_seeking > 500
    /\ sim.threat.threat_level <= 700
    /\ sim.state = "TakingCover"

-----------------------------------------------------------------------------
(* Destructible state follows health *)

\* the state the health of a destructible calls for
StateForHealth(d) ==
    CASE d.health <= 0 -> "Destroyed"
      [] d.health > 0 /\ d.health <= d.damage_threshold -> "Damaged"
      [] OTHER -> "Intact"

\* every system of the running fixed update has run
FixedUpdateDone == sim.pc = "tick" /\ sim.ran = Systems

\* C33: when a fixed update has run all its systems, the state of every
\* destructible is Destroyed if its health is at most 0, Damaged if its
\* health is above 0 and at most damage_threshold (half of max), and Intact
\* otherwise, whether damage_destructible changed the health before the step
\* or a terrain damage event changed it during the fixed update.
C33_StateFollowsHealth ==
    FixedUpdateDone =>
        \A i \in DOMAIN sim.destructibles :
            /\ sim.destructibles[i].state = StateForHealth(sim.destructibles[i])
            /\ sim.destructibles[i].damage_threshold * 2 = sim.destructibles[i].health_max

\* the first fixed update is done, and the tree that damage_destructible
\* damaged before the step and the crater's event damaged during it is
\* Destroyed (either alone leaves it Damaged)
C33_Witness ==
    /\ FixedUpdateDone /\ sim.SimTick = 1 /\ sim.events # <<>>
    /\ \E i \in DOMAIN sim.destructibles :
        /\ sim.destructibles[i].dtype = "Tree"
        /\ sim.destructibles[i].state = "Destroyed"

-----------------------------------------------------------------------------
(* Destructibles in snapshots *)

\* C38: every snapshot the host can take reports for each destructible a
\* state that agrees with the health it reports: Destroyed if and only if
\* the health is at most 0, Damaged if and only if it is above 0 and at most
\* the threshold (half of health_max), Intact otherwise, also when the
\* snapshot follows damage_destructible with no step in between.
C38_SnapshotStateAgrees ==
    Idle =>
        \A k \in DOMAIN snapshot(sim).destructibles :
            Bind(snapshot(sim).destructibles[k],
                 LAMBDA d :
                    d.state = CASE d.health <= 0 -> "Destroyed"
                                [] d.health > 0 /\ d.health * 2 <= d.health_max -> "Damaged"
                                [] OTHER -> "Intact")

-----------------------------------------------------------------------------
(* Activity flags *)

\* C34: when a fixed update has run all its systems, is_firing is true for a
\* squad only if the squad fired at a target in that fixed update; a squad
\* that stopped firing (no enemy in range, pinned, broken or dead) has the
\* flag back at false.
C34_FiringFlagCurrent ==
    FixedUpdateDone =>
        \A i \in DOMAIN sim.squads :
            sim.squads[i].flags.is_firing =>
                sim.squads[i].entity \in Range(sim.fired)

\* C35: when a fixed update has run all its systems, recently_damaged is
\* true only for a squad that combat has damaged (within the last
\* damage_memory_ticks ticks, which here covers every tick since world
\* creation); a squad that was never damaged, its health still at its
\* maximum, is not flagged.
C35_RecentlyDamagedMeansDamaged ==
    FixedUpdateDone =>
        \A i \in DOMAIN sim.squads :
            sim.squads[i].flags.recently_damaged =>
                sim.squads[i].health < sim.squads[i].health_max

-----------------------------------------------------------------------------
(* Flocking and the velocity that moves a squad *)

\* the world with every squad at rest
AtStandstill(w) ==
    [w EXCEPT !.squads = [i \in DOMAIN w.squads |->
                            [w.squads[i] EXCEPT !.vx = 0, !.vy = 0]]]

\* C36: in every fixed update order_system runs after flocking_system and
\* gives every squad, AI-controlled or not, a velocity that depends on its
\* order, position, suppression and morale alone and not on the velocity
\* flocking_system wrote; no system but these two writes a velocity, and
\* movement_system runs after order_system and is the only system to change
\* a position, so the steering velocity never moves a squad nor is reported
\* in a snapshot.
C36_FlockingOverwritten ==
    [][\A s \in Systems : RanNow(s) =>
         /\ s = "order_system" =>
              /\ "flocking_system" \in sim.ran
              /\ \A i \in DOMAIN sim.squads :
                   /\ sim'.squads[i].vx = order_system(AtStandstill(sim)).squads[i].vx
                   /\ sim'.squads[i].vy = order_system(AtStandstill(sim)).squads[i].vy
         /\ s = "movement_system" => "order_system" \in sim.ran
         /\ s \notin {"flocking_system", "order_system"} =>
              \A i \in DOMAIN sim.squads :
                   /\ sim'.squads[i].vx = sim.squads[i].vx
                   /\ sim'.squads[i].vy = sim.squads[i].vy
         /\ s # "movement_system" =>
              \A i \in DOMAIN sim.squads :
                   /\ sim'.squads[i].x = sim.squads[i].x
                   /\ sim'.squads[i].y = sim.squads[i].y]_vars

\* order_system and movement_system have run over an AI squad under Hold that
\* flocking_system had set in motion in this fixed update (activity_flags_system,
\* run in between, saw it moving): it is at rest and where it was spawned
C36_Witness ==
    /\ sim.pc = "tick" /\ sim.SimTick = 1
    /\ {"flocking_system", "order_system", "movement_system"} \subseteq sim.ran
    /\ \E i \in DOMAIN sim.squads :
        /\ sim.squads[i].ai /\ sim.squads[i].order = Hold
        /\ sim.squads[i].flags.is_moving
        /\ sim.squads[i].vx = 0 /\ sim.squads[i].vy = 0
        /\ sim.squads[i].x = BattleSquads[i].x /\ sim.squads[i].y = BattleSquads[i].y

-----------------------------------------------------------------------------
(* Orders of squads without the AI overlay *)

RoutedAtRest ==
    FixedUpdateDone =>
        \A i \in DOMAIN sim.squads :
            (~sim.squads[i].ai /\ sim.squads[i].order = Retreat) =>
                sim.squads[i].vx = 0 /\ sim.squads[i].vy = 0

-----------------------------------------------------------------------------
(* Behaviour states and order rewrites that occur *)

\* C39: no AI squad is ever in the state Regrouping, nor, with the default
\* tactical preferences every spawned AI squad has, in the state Flanking;
\* and whenever ai_order_system changes an order it is the order of an AI
\* squad in the state Retreating, made a MoveTo away from its nearest enemy.
C39_RegroupingUnreachable ==
    /\ [](\A i \in DOMAIN sim.squads :
            sim.squads[i].behavior_state \notin {"Regrouping", "Flanking"})
    /\ [][RanNow("ai_order_system") =>
            \A i \in DOMAIN sim.squads :
                sim'.squads[i].order # sim.squads[i].order =>
                    /\ sim.squads[i].ai
                    /\ sim.squads[i].behavior_state = "Retreating"
                    /\ sim.squads[i].threat.nearest_enemy # None
                    /\ sim'.squads[i].order.kind = "MoveTo"]_vars

\* ai_order_system has run over an AI squad that is Retreating with an enemy
\* in sight and has given it a MoveTo, and one or two enemies are in its
\* range, where a squad with a flanking tendency above 0.6 would be Flanking
C39_Witness ==
    /\ sim.pc = "tick" /\ "ai_order_system" \in sim.ran
    /\ \E i \in DOMAIN sim.squads :
        /\ sim.squads[i].ai
        /\ sim.squads[i].behavior_state = "Retreating"
        /\ sim.squads[i].threat.nearest_enemy # None
        /\ sim.squads[i].threat.enemies_in_range \in {1, 2}
        /\ sim.squads[i].order.kind = "MoveTo"

-----------------------------------------------------------------------------
(* SpatialGrid bookkeeping *)

\* the places of the grid's cell entries: <<cell, index in the cell's Vec>>
GridEntryPlaces(g) ==
    UNION {{<<c, k>> : k \in 1..Len(g.cells[c])} : c \in DOMAIN g.cells}

\* the places holding an entry of the entity
GridPlacesOf(g, entity) ==
    {p \in GridEntryPlaces(g) : g.cells[p[1]][p[2]].entity = entity}

\* C40: after any sequence of clear, insert and remove calls each entity has
\* at most one entry over all cells, the number of cell entries equals
\* total_count(), and the entities holding an entry are the recorded ones,
\* each in its recorded cell: an insert of an entity already present, in
\* another cell or in the same cell, replaces its earlier entry, and remove
\* leaves no entry of the entity behind.
C40_GridBookkeeping ==
    /\ \A entity \in GridEntityIds :
            Cardinality(GridPlacesOf(sim.grid, entity)) <= 1
    /\ Cardinality(GridEntryPlaces(sim.grid)) = total_count(sim.grid)
    /\ \A entity \in GridEntityIds :
            \A p \in GridPlacesOf(sim.grid, entity) :
                /\ entity \in DOMAIN sim.grid.entity_cells
                /\ sim.grid.entity_cells[entity] = p[1]

====
